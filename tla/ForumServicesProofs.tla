------------------------ MODULE ForumServicesProofs ------------------------
(***************************************************************************)
(* Proofs about the services of the forum, for every number of accounts,   *)
(* areas and calls and for every policy.                                   *)
(*                                                                         *)
(* Discussion: the argument is about what a call has locked.  A            *)
(* publication that holds its account's row knows its window, a reply that *)
(* holds its target knows that it is still there, and whoever holds a post *)
(* is alone with it.  From that the numbers of a thread, the limit of a    *)
(* window and the fate of a redacted post follow.                          *)
(*                                                                         *)
(* Reports and discipline (Report!): a call that holds its reporter's row  *)
(* has counted what is there, one that holds a report acts on it as it     *)
(* stands, and one that holds an account's row finds it in good standing.  *)
(***************************************************************************)
EXTENDS MCForumServices, FiniteSetTheorems, SequenceTheorems, WellFoundedInduction, TLAPS

USE DEF people

-----------------------------------------------------------------------------
(* The inductive invariant. *)

PostKinds == {"reply", "edit", "delete"} \cup PostActions
TopicKinds == TopicActions \cup Pinning \cup {"move"}
Publications == {"topic", "reply"}

\* Rows and calls refer to rows that are there.
References ==
    /\ \A p \in DOMAIN posts : posts[p].topic \in DOMAIN topics
    /\ \A k \in DOMAIN topics : topics[k].latest \in DOMAIN posts
    /\ \A t \in Slots : task[t].kind \in PostKinds => task[t].post \in DOMAIN posts
    /\ \A t \in Slots : task[t].kind \in TopicKinds => task[t].topic \in DOMAIN topics

Thread(k) == {p \in DOMAIN posts : posts[p].topic = k}

ActivityIsLatest ==
    \A k \in DOMAIN topics : \A p \in Thread(k) : posts[p].at <= topics[k].activity

\* A body that has changed has a new revision, and what is redacted is deleted.
TextIsRevision ==
    /\ \A p \in DOMAIN posts : /\ posts[p].text = posts[p].revision
                               /\ posts[p].redacted => posts[p].deleted
    /\ \A t \in Slots : task[t].kind \in {"edit", "delete"} => task[t].text = task[t].revision

HoldsActor(t) == task[t].kind # "free" /\ task[t].step \in {"actor", "target"}
HoldsPost(t) == task[t].kind \in {"edit", "delete"} /\ task[t].step = "post"

\* Locks exclude each other.
LocksExclude ==
    \A s, t \in Slots : s # t =>
      /\ HoldsActor(s) /\ HoldsActor(t) => task[s].user # task[t].user
      /\ Replying(s) /\ Replying(t) => posts[task[s].post].topic # posts[task[t].post].topic
      /\ HoldsPost(s) /\ (HoldsPost(t) \/ Replying(t)) => task[s].post # task[t].post

\* What a call found when it locked a row still holds.
LocksHold ==
    \A t \in Slots :
      /\ HoldsActor(t) =>
           /\ ~account[task[t].user].barred /\ account[task[t].user].staff = task[t].staff
           /\ task[t].kind \in Publications => task[t].window = window[task[t].user]
      /\ Replying(t) =>
           /\ ~posts[task[t].post].deleted /\ posts[task[t].post].depth < MaximumReplyDepth
           /\ CanReply(task[t].staff, posts[task[t].post].topic)
      /\ HoldsPost(t) => ~posts[task[t].post].deleted

\* The window of an account is the last one its posts were charged to.
Mine(u) == {q \in DOMAIN posts : posts[q].author = u}
Charged(u, c) == {q \in Mine(u) : posts[q].charged = c}

WindowsAgree ==
    \A u \in Users :
      /\ window[u].count = 0 => Mine(u) = {}
      /\ Cardinality(Charged(u, window[u].start)) <= window[u].count
      /\ \A q \in Mine(u) : \/ posts[q].charged = window[u].start
                            \/ posts[q].charged + PublicationWindow <= window[u].start

IInv ==
    /\ TypeOK /\ References /\ ThreadIsConsistent /\ ActivityIsLatest /\ TextIsRevision
    /\ LocksExclude /\ LocksHold /\ WindowsAgree /\ WindowLimit

-----------------------------------------------------------------------------
(* Calls and rows. *)

LEMMA SlotType ==
    ASSUME TypeOK, NEW t \in Slots
    PROVE  /\ task[t].kind = "topic" => task[t] \in
                [kind : {"topic"}, step : {"begin", "actor"}, user : Users, staff : BOOLEAN,
                 area : Areas, window : Windows]
           /\ task[t].kind = "reply" => task[t] \in
                [kind : {"reply"}, step : {"begin", "actor", "target"}, user : Users, staff : BOOLEAN,
                 post : 1..MaxPosts, window : Windows]
           /\ task[t].kind \in {"edit", "delete"} => task[t] \in
                [kind : {"edit", "delete"}, step : {"begin", "post"}, user : Users, staff : BOOLEAN,
                 post : 1..MaxPosts, revision : 1..MaxRevision, text : 1..MaxRevision]
           /\ task[t].kind \in TopicActions \cup Pinning => task[t] \in
                [kind : TopicActions \cup Pinning, step : {"begin", "actor"}, user : Users, staff : {TRUE},
                 topic : 1..MaxTopics]
           /\ task[t].kind = "move" => task[t] \in
                [kind : {"move"}, step : {"begin", "actor"}, user : Users, staff : {TRUE},
                 topic : 1..MaxTopics, area : Areas]
           /\ task[t].kind \in PostActions => task[t] \in
                [kind : PostActions, step : {"begin", "actor"}, user : Users, staff : {TRUE},
                 post : 1..MaxPosts]
           /\ task[t].kind \in {"free"} \cup Publications \cup {"edit", "delete"} \cup Moderation
           /\ task[t].kind = "free" <=> task[t] = Free
<1> DEFINE
      Topic == [kind : {"topic"}, step : {"begin", "actor"}, user : Users, staff : BOOLEAN,
                area : Areas, window : Windows]
      Reply == [kind : {"reply"}, step : {"begin", "actor", "target"}, user : Users, staff : BOOLEAN,
                post : 1..MaxPosts, window : Windows]
      Change == [kind : {"edit", "delete"}, step : {"begin", "post"}, user : Users, staff : BOOLEAN,
                 post : 1..MaxPosts, revision : 1..MaxRevision, text : 1..MaxRevision]
      Action == [kind : TopicActions \cup Pinning, step : {"begin", "actor"}, user : Users,
                 staff : {TRUE}, topic : 1..MaxTopics]
      Moving == [kind : {"move"}, step : {"begin", "actor"}, user : Users, staff : {TRUE},
                 topic : 1..MaxTopics, area : Areas]
      Handling == [kind : PostActions, step : {"begin", "actor"}, user : Users, staff : {TRUE},
                   post : 1..MaxPosts]
<1>1. \/ task[t] = Free \/ task[t] \in Topic \/ task[t] \in Reply \/ task[t] \in Change
      \/ task[t] \in Action \/ task[t] \in Moving \/ task[t] \in Handling
  BY DEF TypeOK, Calls
<1>2. /\ task[t] = Free => task[t].kind = "free"
      /\ task[t] \in Topic => task[t].kind = "topic"
      /\ task[t] \in Reply => task[t].kind = "reply"
  BY DEF Free
<1>3. /\ task[t] \in Change => task[t].kind \in {"edit", "delete"}
      /\ task[t] \in Moving => task[t].kind = "move"
  OBVIOUS
<1>4. task[t] \in Action => task[t].kind \in TopicActions \cup Pinning
  OBVIOUS
<1>5. task[t] \in Handling => task[t].kind \in PostActions
  OBVIOUS
<1> HIDE DEF Topic, Reply, Change, Action, Moving, Handling
<1>6. /\ task[t].kind = "topic" => task[t] \in Topic
      /\ task[t].kind = "reply" => task[t] \in Reply
      /\ task[t].kind \in {"edit", "delete"} => task[t] \in Change
      /\ task[t].kind \in TopicActions \cup Pinning => task[t] \in Action
      /\ task[t].kind = "move" => task[t] \in Moving
      /\ task[t].kind \in PostActions => task[t] \in Handling
      /\ task[t].kind = "free" <=> task[t] = Free
  BY <1>1, <1>2, <1>3, <1>4, <1>5 DEF TopicActions, Pinning, PostActions
<1>7. task[t].kind \in {"free"} \cup Publications \cup {"edit", "delete"} \cup Moderation
  BY <1>1, <1>2, <1>3, <1>4, <1>5 DEF TopicActions, Pinning, PostActions, Publications, Moderation
<1> QED BY <1>6, <1>7 DEF Topic, Reply, Change, Action, Moving, Handling

LEMMA SlotUser ==
    ASSUME TypeOK, NEW t \in Slots, task[t] # Free
    PROVE  /\ task[t] \in Calls /\ task[t].user \in Users
           /\ task[t].step \in {"begin", "actor", "target", "post"} /\ task[t].staff \in BOOLEAN
<1>1. task[t] \in Calls
  BY DEF TypeOK
<1>2. task[t].user \in Users
  BY <1>1 DEF Calls
<1>3. task[t].step \in {"begin", "actor", "target", "post"} /\ task[t].staff \in BOOLEAN
  BY <1>1 DEF Calls
<1> QED BY <1>1, <1>2, <1>3

\* What a call about a post refers to.
LEMMA TopicOfPost ==
    ASSUME TypeOK, NEW t \in Slots, task[t].kind \in PostKinds
    PROVE  TopicOf(t) = posts[task[t].post].topic
<1>1. CASE task[t].kind = "reply"
  <2>1. task[t] \in [kind : {"reply"}, step : {"begin", "actor", "target"}, user : Users, staff : BOOLEAN,
                     post : 1..MaxPosts, window : Windows]
    BY <1>1, SlotType
  <2> QED BY <2>1 DEF TopicOf
<1>2. CASE task[t].kind \in {"edit", "delete"}
  <2>1. task[t] \in [kind : {"edit", "delete"}, step : {"begin", "post"}, user : Users, staff : BOOLEAN,
                     post : 1..MaxPosts, revision : 1..MaxRevision, text : 1..MaxRevision]
    BY <1>2, SlotType
  <2> QED BY <2>1 DEF TopicOf
<1>3. CASE task[t].kind \in PostActions
  <2>1. task[t] \in [kind : PostActions, step : {"begin", "actor"}, user : Users, staff : {TRUE},
                     post : 1..MaxPosts]
    BY <1>3, SlotType
  <2> QED BY <2>1 DEF TopicOf
<1> QED BY <1>1, <1>2, <1>3 DEF PostKinds

LEMMA PostRow ==
    ASSUME TypeOK, NEW p \in DOMAIN posts
    PROVE  posts[p] \in PostRows /\ p \in 1..Len(posts) /\ p \in 1..MaxPosts
  BY BoundsAssumption DEF TypeOK

LEMMA TopicRow ==
    ASSUME TypeOK, NEW k \in DOMAIN topics
    PROVE  topics[k] \in TopicRows /\ k \in 1..Len(topics) /\ k \in 1..MaxTopics
  BY BoundsAssumption DEF TypeOK

LEMMA TaskSet ==
    ASSUME TypeOK, NEW t \in Slots, NEW x \in {Free} \cup Calls, task' = [task EXCEPT ![t] = x]
    PROVE  /\ task' \in [Slots -> {Free} \cup Calls] /\ task'[t] = x
           /\ \A s \in Slots \ {t} : task'[s] = task[s]
  BY DEF TypeOK

-----------------------------------------------------------------------------
(* What a step does to the posts. *)

SameRow(x, y) ==
    /\ x.topic = y.topic /\ x.number = y.number /\ x.parent = y.parent /\ x.depth = y.depth
    /\ x.author = y.author /\ x.at = y.at /\ x.charged = y.charged

\* One post that is not redacted changes, under the lock of the call.
PostChanges(t, p, x) ==
    /\ posts' = [posts EXCEPT ![p] = x] /\ x \in PostRows /\ SameRow(x, posts[p])
    /\ ~posts[p].redacted /\ x.text = x.revision /\ (x.redacted => x.deleted)
    /\ \/ HoldsPost(t) /\ posts[p].revision = task[t].revision
       \/ LockPostForModeration(p) /\ HoldsActor(t) /\ task[t].kind \in PostActions
    /\ p = task[t].post /\ task' = [task EXCEPT ![t] = Free]
    /\ UNCHANGED <<now, people, mode, topics>>

LEMMA EditChanges ==
    ASSUME TypeOK, References, TextIsRevision, LocksHold, NEW t \in Slots, EditPost(t)
    PROVE  \E p \in DOMAIN posts, x \in PostRows : PostChanges(t, p, x)
<1> DEFINE p == task[t].post
           x == [posts[p] EXCEPT !.revision = @ + 1, !.text = @ + 1]
<1>1. task[t].kind = "edit" /\ task[t].step = "post"
  BY DEF EditPost, At
<1>2. p \in DOMAIN posts /\ HoldsPost(t) /\ ~posts[p].deleted
  BY <1>1 DEF References, PostKinds, LocksHold, HoldsPost
<1>3. /\ posts[p] \in PostRows /\ posts[p].text = posts[p].revision
      /\ ~posts[p].redacted /\ posts[p].revision < MaxRevision
  BY <1>2, PostRow DEF TextIsRevision, EditPost
<1> HIDE DEF p
<1>4. x \in PostRows /\ SameRow(x, posts[p]) /\ x.text = x.revision /\ (x.redacted => x.deleted)
  <2>1. posts[p].revision + 1 \in 1..MaxRevision /\ posts[p].text + 1 \in 1..MaxRevision
    BY <1>3, BoundsAssumption DEF PostRows
  <2>2. x.redacted = posts[p].redacted /\ x.revision = posts[p].revision + 1 /\ x.text = posts[p].text + 1
    BY <1>3 DEF PostRows
  <2>3. x \in PostRows
    BY <1>3, <2>1 DEF PostRows
  <2>4. SameRow(x, posts[p])
    BY <1>3 DEF PostRows, SameRow
  <2> QED BY <1>3, <2>2, <2>3, <2>4
<1>5. posts' = [posts EXCEPT ![p] = x]
  BY <1>2, <1>3 DEF EditPost, UpdatePostRevision, p, TypeOK, PostRows
<1>6. /\ task' = [task EXCEPT ![t] = Free] /\ UNCHANGED <<now, people, mode, topics>>
      /\ posts[p].revision = task[t].revision
  BY DEF EditPost, CanChangePost, End, p
<1> HIDE DEF x
<1> QED BY <1>2, <1>3, <1>4, <1>5, <1>6 DEF PostChanges, p

LEMMA DeleteChanges ==
    ASSUME TypeOK, References, TextIsRevision, LocksHold, NEW t \in Slots, DeletePost(t)
    PROVE  \E p \in DOMAIN posts, x \in PostRows : PostChanges(t, p, x)
<1> DEFINE p == task[t].post
           x == [posts[p] EXCEPT !.deleted = TRUE]
<1>1. task[t].kind = "delete" /\ task[t].step = "post"
  BY DEF DeletePost, At
<1>2. p \in DOMAIN posts /\ HoldsPost(t) /\ ~posts[p].deleted
  BY <1>1 DEF References, PostKinds, LocksHold, HoldsPost
<1>3. posts[p] \in PostRows /\ posts[p].text = posts[p].revision /\ ~posts[p].redacted
  BY <1>2, PostRow DEF TextIsRevision
<1> HIDE DEF p
<1>4. x \in PostRows /\ SameRow(x, posts[p]) /\ x.text = x.revision /\ x.deleted
  BY <1>3 DEF PostRows, SameRow
<1>5. posts' = [posts EXCEPT ![p] = x]
  BY <1>2, <1>3 DEF DeletePost, SoftDeletePost, p, TypeOK, PostRows
<1>6. /\ task' = [task EXCEPT ![t] = Free] /\ UNCHANGED <<now, people, mode, topics>>
      /\ posts[p].revision = task[t].revision
  BY DEF DeletePost, CanChangePost, End, p
<1> HIDE DEF x
<1> QED BY <1>2, <1>3, <1>4, <1>5, <1>6 DEF PostChanges, p

LEMMA ModerationChanges ==
    ASSUME TypeOK, References, TextIsRevision, LocksHold, NEW t \in Slots, applyPostAction(t)
    PROVE  \E p \in DOMAIN posts, x \in PostRows : PostChanges(t, p, x)
<1> DEFINE p == task[t].post
<1>1. task[t].kind \in PostActions /\ task[t].step = "actor"
  BY DEF applyPostAction, At
<1>2. p \in DOMAIN posts /\ LockPostForModeration(p) /\ HoldsActor(t)
  BY <1>1 DEF References, PostKinds, PostActions, HoldsActor, applyPostAction
<1>3. posts[p] \in PostRows /\ posts[p].text = posts[p].revision
  BY <1>2, PostRow DEF TextIsRevision
<1>4. task' = [task EXCEPT ![t] = Free] /\ UNCHANGED <<now, people, mode, topics>>
  BY DEF applyPostAction, End
<1>5. CASE /\ ~posts[p].redacted /\ posts[p].revision < MaxRevision /\ RedactPostAndAudit(p)
  <2> DEFINE x == [posts[p] EXCEPT !.deleted = TRUE, !.redacted = TRUE,
                                   !.revision = @ + 1, !.text = @ + 1]
  <2> HIDE DEF p
  <2>1. x \in PostRows /\ SameRow(x, posts[p]) /\ x.text = x.revision /\ x.deleted
    <3>1. posts[p].revision + 1 \in 1..MaxRevision /\ posts[p].text + 1 \in 1..MaxRevision
      BY <1>3, <1>5, BoundsAssumption DEF PostRows
    <3>2. x.deleted /\ x.revision = posts[p].revision + 1 /\ x.text = posts[p].text + 1
      BY <1>3 DEF PostRows
    <3>3. x \in PostRows
      BY <1>3, <3>1 DEF PostRows
    <3>4. SameRow(x, posts[p])
      BY <1>3 DEF PostRows, SameRow
    <3> QED BY <1>3, <3>2, <3>3, <3>4
  <2>2. posts' = [posts EXCEPT ![p] = x]
    BY <1>2, <1>3, <1>5 DEF RedactPostAndAudit, TypeOK, PostRows
  <2> HIDE DEF x
  <2> QED BY <1>1, <1>2, <1>4, <1>5, <2>1, <2>2 DEF PostChanges, p
<1>6. ASSUME NEW hide \in BOOLEAN, CanChangeVisibility(p, hide), ChangePostVisibilityAndAudit(p, hide)
      PROVE  \E q \in DOMAIN posts, x \in PostRows : PostChanges(t, q, x)
  <2> DEFINE x == [posts[p] EXCEPT !.deleted = hide]
  <2> HIDE DEF p
  <2>1. ~posts[p].redacted
    BY <1>6 DEF CanChangeVisibility
  <2>2. x \in PostRows /\ SameRow(x, posts[p]) /\ x.text = x.revision /\ x.redacted = posts[p].redacted
    BY <1>3, <1>6 DEF PostRows, SameRow
  <2>3. posts' = [posts EXCEPT ![p] = x]
    BY <1>2, <1>3, <1>6 DEF ChangePostVisibilityAndAudit, TypeOK, PostRows
  <2> HIDE DEF x
  <2> QED BY <1>1, <1>2, <1>4, <2>1, <2>2, <2>3 DEF PostChanges, p
<1> QED BY <1>5, <1>6 DEF applyPostAction

-----------------------------------------------------------------------------
(* What a step does to the topics, and to the calls. *)

\* One topic on which nobody replies changes its state, its pin or its area.
TopicChanges(t, k, x) ==
    /\ topics' = [topics EXCEPT ![k] = x] /\ x \in TopicRows
    /\ x.latest = topics[k].latest /\ x.replies = topics[k].replies /\ x.next = topics[k].next
    /\ x.activity = topics[k].activity
    /\ ~TopicLocked(k) /\ task' = [task EXCEPT ![t] = Free]
    /\ HoldsActor(t) /\ task[t].kind \in TopicKinds
    /\ UNCHANGED <<now, people, mode, posts>>

LEMMA StateChanges ==
    ASSUME TypeOK, References, NEW t \in Slots, changeTopicState(t)
    PROVE  \E k \in DOMAIN topics, x \in TopicRows : TopicChanges(t, k, x)
<1> DEFINE k == task[t].topic
           state == Transition[task[t].kind][2]
           x == [topics[k] EXCEPT !.state = state]
<1>1. task[t].kind \in TopicActions /\ task[t].step = "actor"
  BY DEF changeTopicState, At
<1>2. k \in DOMAIN topics /\ HoldsActor(t) /\ task[t].kind \in TopicKinds
  BY <1>1 DEF References, TopicKinds, HoldsActor, TopicActions
<1>3. topics[k] \in TopicRows /\ state \in States
  BY <1>1, <1>2, TopicRow DEF TopicActions, Transition, States
<1>4. /\ topics' = [topics EXCEPT ![k].state = state] /\ ~TopicLocked(k)
      /\ task' = [task EXCEPT ![t] = Free] /\ UNCHANGED <<now, people, mode, posts>>
  BY DEF changeTopicState, End, ChangeTopicStateAndAudit, LockTopicForModeration
<1> HIDE DEF k, state
<1>5. /\ x \in TopicRows /\ x.latest = topics[k].latest /\ x.replies = topics[k].replies
      /\ x.next = topics[k].next /\ x.activity = topics[k].activity
  BY <1>3 DEF TopicRows
<1>6. topics' = [topics EXCEPT ![k] = x]
  BY <1>2, <1>3, <1>4 DEF TypeOK, TopicRows
<1> HIDE DEF x
<1> QED BY <1>2, <1>4, <1>5, <1>6 DEF TopicChanges

LEMMA PinChanges ==
    ASSUME TypeOK, References, NEW t \in Slots, pinTopic(t)
    PROVE  \E k \in DOMAIN topics, x \in TopicRows : TopicChanges(t, k, x)
<1> DEFINE k == task[t].topic
           pin == (task[t].kind = "pin")
           x == [topics[k] EXCEPT !.pinned = pin]
<1>1. task[t].kind \in Pinning /\ task[t].step = "actor"
  BY DEF pinTopic, At
<1>2. k \in DOMAIN topics /\ HoldsActor(t) /\ task[t].kind \in TopicKinds
  BY <1>1 DEF References, TopicKinds, HoldsActor, Pinning
<1>3. topics[k] \in TopicRows /\ pin \in BOOLEAN
  BY <1>1, <1>2, TopicRow
<1>4. /\ topics' = [topics EXCEPT ![k].pinned = pin] /\ ~TopicLocked(k)
      /\ task' = [task EXCEPT ![t] = Free] /\ UNCHANGED <<now, people, mode, posts>>
  BY DEF pinTopic, End, ChangeTopicPinAndAudit, LockTopicForModeration
<1> HIDE DEF k, pin
<1>5. /\ x \in TopicRows /\ x.latest = topics[k].latest /\ x.replies = topics[k].replies
      /\ x.next = topics[k].next /\ x.activity = topics[k].activity
  BY <1>3 DEF TopicRows
<1>6. topics' = [topics EXCEPT ![k] = x]
  BY <1>2, <1>3, <1>4 DEF TypeOK, TopicRows
<1> HIDE DEF x
<1> QED BY <1>2, <1>4, <1>5, <1>6 DEF TopicChanges

LEMMA AreaChanges ==
    ASSUME TypeOK, References, NEW t \in Slots, moveTopic(t)
    PROVE  \E k \in DOMAIN topics, x \in TopicRows : TopicChanges(t, k, x)
<1> DEFINE k == task[t].topic
           a == task[t].area
           x == [topics[k] EXCEPT !.area = a]
<1>1. task[t].kind = "move" /\ task[t].step = "actor"
  BY DEF moveTopic, At
<1>2. k \in DOMAIN topics /\ HoldsActor(t) /\ a \in Areas /\ task[t].kind \in TopicKinds
  BY <1>1, SlotType DEF References, TopicKinds, HoldsActor
<1>3. topics[k] \in TopicRows
  BY <1>2, TopicRow
<1>4. /\ topics' = [topics EXCEPT ![k].area = a] /\ ~TopicLocked(k)
      /\ task' = [task EXCEPT ![t] = Free] /\ UNCHANGED <<now, people, mode, posts>>
  BY DEF moveTopic, End, MoveTopicAndAudit, LockTopicForModeration
<1> HIDE DEF k, a
<1>5. /\ x \in TopicRows /\ x.latest = topics[k].latest /\ x.replies = topics[k].replies
      /\ x.next = topics[k].next /\ x.activity = topics[k].activity
  BY <1>2, <1>3 DEF TopicRows
<1>6. topics' = [topics EXCEPT ![k] = x]
  BY <1>2, <1>3, <1>4 DEF TypeOK, TopicRows
<1> HIDE DEF x
<1> QED BY <1>2, <1>4, <1>5, <1>6 DEF TopicChanges

\* A call begins with rows that are there.
Begins(t, x) ==
    /\ task[t] = Free /\ task' = [task EXCEPT ![t] = x] /\ x \in Calls /\ x.step = "begin"
    /\ x.kind \in PostKinds => x.post \in DOMAIN posts
    /\ x.kind \in TopicKinds => x.topic \in DOMAIN topics
    /\ x.kind \in {"edit", "delete"} => x.text = x.revision
    /\ UNCHANGED <<now, people, mode, topics, posts>>

LEMMA PublicationBegins ==
    ASSUME TypeOK, NEW t \in Slots, NEW u \in Users,
           \/ \E a \in Areas : StartTopic(t, u, a)
           \/ \E p \in DOMAIN posts : StartReply(t, u, p)
    PROVE  \E x \in Calls : Begins(t, x)
<1>1. account[u].staff \in BOOLEAN /\ window[u] \in Windows
  BY DEF TypeOK
<1>2. ASSUME NEW a \in Areas, StartTopic(t, u, a)
      PROVE  \E x \in Calls : Begins(t, x)
  <2> DEFINE x == [kind |-> "topic", step |-> "begin", user |-> u, staff |-> account[u].staff,
                   area |-> a, window |-> window[u]]
  <2>1. x \in Calls
    BY <1>1 DEF Calls
  <2>2. x.kind \notin PostKinds \cup TopicKinds \cup {"edit", "delete"} /\ x.step = "begin"
    BY DEF PostKinds, TopicKinds, PostActions, TopicActions, Pinning
  <2>3. Begin(t, x) /\ UNCHANGED <<now, people, mode, topics, posts>>
    BY <1>2 DEF StartTopic
  <2> HIDE DEF x
  <2> QED BY <2>1, <2>2, <2>3 DEF Begins, Begin
<1>3. ASSUME NEW p \in DOMAIN posts, StartReply(t, u, p)
      PROVE  \E x \in Calls : Begins(t, x)
  <2> DEFINE x == [kind |-> "reply", step |-> "begin", user |-> u, staff |-> account[u].staff,
                   post |-> p, window |-> window[u]]
  <2>1. x \in Calls
    BY <1>1, PostRow DEF Calls
  <2>2. /\ x.kind \notin TopicKinds \cup {"edit", "delete"} /\ x.step = "begin" /\ x.post = p
    BY DEF TopicKinds, TopicActions, Pinning
  <2>3. Begin(t, x) /\ UNCHANGED <<now, people, mode, topics, posts>>
    BY <1>3 DEF StartReply
  <2> HIDE DEF x
  <2> QED BY <2>1, <2>2, <2>3 DEF Begins, Begin
<1> QED BY <1>2, <1>3

LEMMA ChangeBegins ==
    ASSUME TypeOK, TextIsRevision, NEW t \in Slots, NEW kind \in {"edit", "delete"},
           NEW p \in DOMAIN posts, StartChange(t, kind, p)
    PROVE  \E x \in Calls : Begins(t, x)
<1> DEFINE u == posts[p].author
           x == [kind |-> kind, step |-> "begin", user |-> u, staff |-> account[u].staff,
                 post |-> p, revision |-> posts[p].revision, text |-> posts[p].text]
<1>1. posts[p] \in PostRows /\ p \in 1..MaxPosts
  BY PostRow
<1>2. /\ u \in Users /\ posts[p].revision \in 1..MaxRevision /\ posts[p].text \in 1..MaxRevision
      /\ posts[p].text = posts[p].revision
  BY <1>1 DEF PostRows, TextIsRevision
<1>3. account[u].staff \in BOOLEAN
  BY <1>2 DEF TypeOK
<1>4. x \in Calls
  BY <1>1, <1>2, <1>3 DEF Calls
<1>5. x.kind = kind /\ kind \notin TopicKinds /\ x.step = "begin" /\ x.post = p /\ x.text = x.revision
  BY <1>2 DEF TopicKinds, TopicActions, Pinning
<1>6. Begin(t, x) /\ UNCHANGED <<now, people, mode, topics, posts>>
  BY DEF StartChange
<1> HIDE DEF x, u
<1> QED BY <1>4, <1>5, <1>6 DEF Begins, Begin

LEMMA ModerationBegins ==
    ASSUME TypeOK, NEW t \in Slots, NEW u \in Users,
           \/ \E kind \in TopicActions \cup Pinning, k \in DOMAIN topics : StartTopicAction(t, u, kind, k)
           \/ \E k \in DOMAIN topics, a \in Areas : StartMove(t, u, k, a)
           \/ \E kind \in PostActions, p \in DOMAIN posts : StartPostAction(t, u, kind, p)
    PROVE  \E x \in Calls : Begins(t, x)
<1>1. ASSUME NEW kind \in TopicActions \cup Pinning, NEW k \in DOMAIN topics, StartTopicAction(t, u, kind, k)
      PROVE  \E x \in Calls : Begins(t, x)
  <2> DEFINE x == [kind |-> kind, step |-> "begin", user |-> u, staff |-> TRUE, topic |-> k]
  <2>1. x \in Calls
    BY TopicRow DEF Calls
  <2>2. /\ x.kind = kind /\ kind \notin PostKinds /\ kind \notin {"edit", "delete"}
        /\ x.step = "begin" /\ x.topic = k
    BY DEF PostKinds, PostActions, TopicActions, Pinning
  <2>3. Begin(t, x) /\ UNCHANGED <<now, people, mode, topics, posts>>
    BY <1>1 DEF StartTopicAction
  <2> HIDE DEF x
  <2> QED BY <2>1, <2>2, <2>3 DEF Begins, Begin
<1>2. ASSUME NEW k \in DOMAIN topics, NEW a \in Areas, StartMove(t, u, k, a)
      PROVE  \E x \in Calls : Begins(t, x)
  <2> DEFINE x == [kind |-> "move", step |-> "begin", user |-> u, staff |-> TRUE, topic |-> k, area |-> a]
  <2>1. x \in Calls
    BY TopicRow DEF Calls
  <2>2. /\ x.kind = "move" /\ "move" \notin PostKinds /\ x.step = "begin" /\ x.topic = k
    BY DEF PostKinds, PostActions
  <2>3. Begin(t, x) /\ UNCHANGED <<now, people, mode, topics, posts>>
    BY <1>2 DEF StartMove
  <2> HIDE DEF x
  <2> QED BY <2>1, <2>2, <2>3 DEF Begins, Begin
<1>3. ASSUME NEW kind \in PostActions, NEW p \in DOMAIN posts, StartPostAction(t, u, kind, p)
      PROVE  \E x \in Calls : Begins(t, x)
  <2> DEFINE x == [kind |-> kind, step |-> "begin", user |-> u, staff |-> TRUE, post |-> p]
  <2>1. x \in Calls
    BY PostRow DEF Calls
  <2>2. /\ x.kind = kind /\ kind \notin TopicKinds /\ kind \notin {"edit", "delete"}
        /\ x.step = "begin" /\ x.post = p
    BY DEF TopicKinds, PostActions, TopicActions, Pinning
  <2>3. Begin(t, x) /\ UNCHANGED <<now, people, mode, topics, posts>>
    BY <1>3 DEF StartPostAction
  <2> HIDE DEF x
  <2> QED BY <2>1, <2>2, <2>3 DEF Begins, Begin
<1> QED BY <1>1, <1>2, <1>3

\* A call that takes a lock keeps what it is about.
Advances(t, x) ==
    /\ task[t] # Free /\ task' = [task EXCEPT ![t] = x] /\ x \in Calls
    /\ x.kind = task[t].kind /\ x.user = task[t].user /\ x.staff = task[t].staff
    /\ task[t].kind \in PostKinds => x.post = task[t].post
    /\ task[t].kind \in TopicKinds => x.topic = task[t].topic
    /\ task[t].kind \in {"edit", "delete"} => x.text = task[t].text /\ x.revision = task[t].revision
    /\ UNCHANGED <<now, people, mode, topics, posts>>

\* It takes its account's row ...
TakesActor(t, x) ==
    LET u == task[t].user IN
    /\ Advances(t, x) /\ x.step = "actor" /\ ~UserLocked(u)
    /\ ~account[u].barred /\ account[u].staff = task[t].staff
    /\ x.kind \in Publications => x.window = window[u]
    /\ x.kind \in Publications \cup Moderation

\* ... or what it replies to ...
TakesTarget(t, x) ==
    LET p == task[t].post IN
    /\ Advances(t, x) /\ x.step = "target" /\ x.kind = "reply" /\ task[t].step = "actor"
    /\ x.window = task[t].window
    /\ ~TopicLocked(posts[p].topic) /\ ~PostLocked(p) /\ ~posts[p].deleted
    /\ posts[p].depth < MaximumReplyDepth /\ CanReply(task[t].staff, posts[p].topic)

\* ... or the post that it changes.
TakesPost(t, x) ==
    LET p == task[t].post IN
    /\ Advances(t, x) /\ x.step = "post" /\ x.kind \in {"edit", "delete"}
    /\ ~PostLocked(p) /\ ~PostShared(p) /\ ~posts[p].deleted

LEMMA PublicationTakesActor ==
    ASSUME TypeOK, NEW t \in Slots, lockPublicationActor(t)
    PROVE  \E x \in Calls : TakesActor(t, x)
<1> DEFINE u == task[t].user
           w == window[u]
           x == [task[t] EXCEPT !.step = "actor", !.window = w]
<1>1. task[t].kind \in {"topic", "reply"} /\ task[t] # Free
  BY DEF lockPublicationActor, At
<1>2. u \in Users /\ w \in Windows
  BY <1>1, SlotUser DEF TypeOK
<1>3. /\ task' = [task EXCEPT ![t].step = "actor", ![t].window = w]
      /\ ~UserLocked(u) /\ ~account[u].barred /\ account[u].staff = task[t].staff
      /\ UNCHANGED <<now, people, mode, topics, posts>>
  BY DEF lockPublicationActor, LockPublicationActor
<1> HIDE DEF u, w
<1>4. /\ x \in Calls /\ x.kind = task[t].kind /\ x.user = task[t].user /\ x.staff = task[t].staff
      /\ x.step = "actor" /\ x.window = w
      /\ task[t].kind \in PostKinds => x.post = task[t].post
      /\ task[t].kind \notin TopicKinds
  <2>1. CASE task[t].kind = "topic"
    <3>1. task[t] \in [kind : {"topic"}, step : {"begin", "actor"}, user : Users, staff : BOOLEAN,
                       area : Areas, window : Windows]
      BY <2>1, SlotType
    <3>2. task[t].kind \notin PostKinds /\ task[t].kind \notin TopicKinds
      BY <2>1 DEF PostKinds, PostActions, TopicKinds, TopicActions, Pinning
    <3> QED BY <1>2, <3>1, <3>2 DEF Calls
  <2>2. CASE task[t].kind = "reply"
    <3>1. task[t] \in [kind : {"reply"}, step : {"begin", "actor", "target"}, user : Users, staff : BOOLEAN,
                       post : 1..MaxPosts, window : Windows]
      BY <2>2, SlotType
    <3>2. task[t].kind \notin TopicKinds
      BY <2>2 DEF TopicKinds, TopicActions, Pinning
    <3> QED BY <1>2, <3>1, <3>2 DEF Calls
  <2> QED BY <1>1, <2>1, <2>2
<1>5. task' = [task EXCEPT ![t] = x]
  BY <1>3
<1> HIDE DEF x
<1>6. Advances(t, x)
  BY <1>1, <1>3, <1>4, <1>5 DEF Advances
<1>7. x.kind \in Publications \cup Moderation
  BY <1>1, <1>4 DEF Publications
<1> QED BY <1>3, <1>4, <1>6, <1>7 DEF TakesActor, u, w

LEMMA ModeratorTakesActor ==
    ASSUME TypeOK, NEW t \in Slots, LockModerator(t)
    PROVE  \E x \in Calls : TakesActor(t, x)
<1> DEFINE u == task[t].user
           x == [task[t] EXCEPT !.step = "actor"]
<1>1. task[t].kind \in Moderation /\ task[t] # Free
  BY DEF LockModerator, At
<1>2. /\ task' = [task EXCEPT ![t].step = "actor"] /\ ~UserLocked(u)
      /\ account[u].staff /\ ~account[u].barred
      /\ UNCHANGED <<now, people, mode, topics, posts>>
  BY DEF LockModerator, LockUserForSuspension, Staffer, Move
<1>3. /\ x \in Calls /\ x.kind = task[t].kind /\ x.user = task[t].user /\ x.staff = task[t].staff
      /\ x.step = "actor" /\ task[t].staff = TRUE
      /\ task[t].kind \in PostKinds => x.post = task[t].post
      /\ task[t].kind \in TopicKinds => x.topic = task[t].topic
  <2>1. CASE task[t].kind \in TopicActions \cup Pinning
    <3>1. task[t] \in [kind : TopicActions \cup Pinning, step : {"begin", "actor"}, user : Users,
                       staff : {TRUE}, topic : 1..MaxTopics]
      BY <2>1, SlotType
    <3>2. task[t].kind \notin PostKinds
      BY <2>1 DEF PostKinds, PostActions, TopicActions, Pinning
    <3> QED BY <3>1, <3>2 DEF Calls
  <2>2. CASE task[t].kind = "move"
    <3>1. task[t] \in [kind : {"move"}, step : {"begin", "actor"}, user : Users, staff : {TRUE},
                       topic : 1..MaxTopics, area : Areas]
      BY <2>2, SlotType
    <3>2. task[t].kind \notin PostKinds
      BY <2>2 DEF PostKinds, PostActions
    <3> QED BY <3>1, <3>2 DEF Calls
  <2>3. CASE task[t].kind \in PostActions
    <3>1. task[t] \in [kind : PostActions, step : {"begin", "actor"}, user : Users, staff : {TRUE},
                       post : 1..MaxPosts]
      BY <2>3, SlotType
    <3>2. task[t].kind \notin TopicKinds
      BY <2>3 DEF TopicKinds, PostActions, TopicActions, Pinning
    <3> QED BY <3>1, <3>2 DEF Calls
  <2> QED BY <1>1, <2>1, <2>2, <2>3 DEF Moderation
<1>4. task' = [task EXCEPT ![t] = x]
  BY <1>2
<1>5. /\ x.kind \notin Publications /\ x.kind \notin {"edit", "delete"}
      /\ x.kind \in Publications \cup Moderation
  BY <1>1, <1>3 DEF Publications, Moderation, TopicActions, Pinning, PostActions
<1> HIDE DEF x
<1>6. Advances(t, x)
  BY <1>1, <1>2, <1>3, <1>4, <1>5 DEF Advances
<1>7. account[u].staff = task[t].staff
  <2>1. u \in Users
    BY <1>1, SlotUser
  <2>2. account[u].staff \in BOOLEAN
    BY <2>1 DEF TypeOK
  <2> QED BY <1>2, <1>3, <2>2
<1> QED BY <1>2, <1>3, <1>5, <1>6, <1>7 DEF TakesActor

LEMMA ReplyTakesTarget ==
    ASSUME TypeOK, NEW t \in Slots, LockTopicForReply(t)
    PROVE  \E x \in Calls : TakesTarget(t, x)
<1> DEFINE x == [task[t] EXCEPT !.step = "target"]
<1>1. task[t].kind = "reply" /\ task[t] # Free /\ task[t].step = "actor"
  BY DEF LockTopicForReply, At
<1>2. task[t] \in [kind : {"reply"}, step : {"begin", "actor", "target"}, user : Users, staff : BOOLEAN,
                   post : 1..MaxPosts, window : Windows]
  BY <1>1, SlotType
<1>3. /\ x \in Calls /\ x.kind = task[t].kind /\ x.user = task[t].user /\ x.staff = task[t].staff
      /\ x.step = "target" /\ x.post = task[t].post /\ x.window = task[t].window
  BY <1>2 DEF Calls
<1>4. task' = [task EXCEPT ![t] = x] /\ UNCHANGED <<now, people, mode, topics, posts>>
  BY DEF LockTopicForReply, Move
<1>5. task[t].kind \notin TopicKinds /\ task[t].kind \notin {"edit", "delete"}
  BY <1>1 DEF TopicKinds, TopicActions, Pinning
<1> HIDE DEF x
<1>6. Advances(t, x)
  BY <1>1, <1>3, <1>4, <1>5 DEF Advances
<1> QED BY <1>1, <1>3, <1>6 DEF TakesTarget, LockTopicForReply

LEMMA ChangeTakesPost ==
    ASSUME TypeOK, NEW t \in Slots, LockPostForEdit(t)
    PROVE  \E x \in Calls : TakesPost(t, x)
<1> DEFINE x == [task[t] EXCEPT !.step = "post"]
<1>1. task[t].kind \in {"edit", "delete"} /\ task[t] # Free
  BY DEF LockPostForEdit, At
<1>2. task[t] \in [kind : {"edit", "delete"}, step : {"begin", "post"}, user : Users, staff : BOOLEAN,
                   post : 1..MaxPosts, revision : 1..MaxRevision, text : 1..MaxRevision]
  BY <1>1, SlotType
<1>3. /\ x \in Calls /\ x.kind = task[t].kind /\ x.user = task[t].user /\ x.staff = task[t].staff
      /\ x.step = "post" /\ x.post = task[t].post /\ x.text = task[t].text
      /\ x.revision = task[t].revision
  BY <1>2 DEF Calls
<1>4. task' = [task EXCEPT ![t] = x] /\ UNCHANGED <<now, people, mode, topics, posts>>
  BY DEF LockPostForEdit, Move
<1>5. task[t].kind \notin TopicKinds
  BY <1>1 DEF TopicKinds, TopicActions, Pinning
<1> HIDE DEF x
<1>6. Advances(t, x)
  BY <1>1, <1>3, <1>4, <1>5 DEF Advances
<1> QED BY <1>1, <1>3, <1>6 DEF TakesPost, LockPostForEdit

\* A publication commits: its window, a post and the topic it belongs to.
Charges(t, w, x) ==
    LET u == task[t].user IN
    /\ HoldsActor(t) /\ task[t].kind \in Publications
    /\ w \in DecidePublication(task[t].window) /\ w \in Windows /\ u \in Users
    /\ window' = [window EXCEPT ![u] = w]
    /\ x \in PostRows /\ x.author = u /\ x.charged = w.start /\ x.text = x.revision
    /\ ~x.redacted /\ ~x.deleted
    /\ posts' = Append(posts, x) /\ Len(posts) < MaxPosts
    /\ task' = [task EXCEPT ![t] = Free] /\ UNCHANGED <<now, account, mode>>

OpensTopic(t, w, x, y) ==
    /\ Charges(t, w, x) /\ task[t].kind = "topic" /\ y \in TopicRows /\ Len(topics) < MaxTopics
    /\ topics' = Append(topics, y) /\ x.topic = Len(topics) + 1 /\ x.number = 1 /\ x.at = y.activity
    /\ y.latest = Len(posts) + 1 /\ y.replies = 0 /\ y.next = 2

AddsReply(t, w, x, y) ==
    LET k == posts[task[t].post].topic IN
    /\ Charges(t, w, x) /\ y \in TopicRows /\ Replying(t) /\ k \in DOMAIN topics
    /\ topics' = [topics EXCEPT ![k] = y] /\ x.topic = k /\ x.number = topics[k].next /\ x.at = y.activity
    /\ y.latest = Len(posts) + 1 /\ y.replies = topics[k].next - 1 /\ y.next = topics[k].next + 1
    /\ topics[k].activity <= y.activity /\ y.area = topics[k].area /\ y.state = topics[k].state

LEMMA WindowsAdmitted ==
    ASSUME TypeOK, NEW v \in Windows, NEW w \in DecidePublication(v)
    PROVE  /\ w \in Windows /\ w.count > 0
           /\ \/ w.start = now /\ w.count = 1 /\ (v.count = 0 \/ v.start + PublicationWindow <= now)
              \/ w.start = v.start /\ w.count = v.count + 1
<1> USE PolicyAssumption, BoundsAssumption
<1> DEFINE limit == IF now < NewAccountPeriod THEN NewAccountLimit ELSE PublicationLimit
           elapsed == v.count = 0 \/ v.start + PublicationWindow <= now
<1>1. limit \in 1..PublicationLimit /\ now \in 0..MaxTime
  BY DEF TypeOK
<1>2. v.start \in 0..MaxTime /\ v.count \in 0..PublicationLimit
  BY DEF Windows
<1>3. CASE elapsed
  <2>1. w = [start |-> now, count |-> 1]
    BY <1>3 DEF DecidePublication
  <2>2. 1 \in 0..PublicationLimit
    BY <1>1
  <2>3. w \in Windows
    BY <1>1, <2>1, <2>2 DEF Windows
  <2> QED BY <1>3, <2>1, <2>3
<1>4. CASE ~elapsed
  <2>1. ~(v.count >= limit) /\ w = [v EXCEPT !.count = @ + 1]
    BY <1>4 DEF DecidePublication
  <2>2. v.count + 1 \in 0..PublicationLimit /\ v.count + 1 > 0
    BY <1>1, <1>2, <2>1
  <2>3. w.start = v.start /\ w.count = v.count + 1
    BY <2>1 DEF Windows
  <2>4. w \in Windows
    BY <2>1, <2>2 DEF Windows
  <2> QED BY <2>2, <2>3, <2>4
<1> QED BY <1>3, <1>4

LEMMA TopicOpens ==
    ASSUME TypeOK, NEW t \in Slots, createTopic(t)
    PROVE  \E w \in Windows, x \in PostRows, y \in TopicRows : OpensTopic(t, w, x, y)
<1> USE PolicyAssumption, BoundsAssumption
<1> DEFINE u == task[t].user
           a == task[t].area
<1>1. task[t].kind = "topic" /\ task[t].step = "actor"
  BY DEF createTopic, At
<1>2. u \in Users /\ a \in Areas /\ task[t].window \in Windows /\ HoldsActor(t)
  BY <1>1, SlotType DEF HoldsActor
<1>3. PICK w \in DecidePublication(task[t].window) :
        ReplacePublicationWindow(u, w) /\ CreateTopicAndFirstPost(t, w)
  BY DEF createTopic
<1>4. w \in Windows /\ w.start \in 0..MaxTime
  BY <1>2, WindowsAdmitted DEF Windows
<1> DEFINE x == NewPost(t, w, Len(topics) + 1, 1, 0, 1, now)
           y == [area |-> a, state |-> "open", latest |-> Len(posts) + 1,
                 replies |-> 0, next |-> 2, activity |-> now, pinned |-> FALSE]
<1>5. /\ Len(topics) < MaxTopics /\ Len(posts) < MaxPosts /\ Len(topics) \in Nat /\ Len(posts) \in Nat
      /\ now \in 0..MaxTime
  BY DEF createTopic, TypeOK
<1>6. /\ Len(topics) + 1 \in 1..MaxTopics /\ 1 \in 1..MaxPosts /\ 0 \in 0..MaxPosts
      /\ 1 \in 1..MaximumReplyDepth /\ 1 \in 1..MaxRevision
  BY <1>5
<1>7. Len(posts) + 1 \in 1..MaxPosts /\ 2 \in 2..MaxPosts + 1
  BY <1>5
<1>8. x \in PostRows
  BY <1>2, <1>4, <1>5, <1>6 DEF PostRows, NewPost
<1>9. y \in TopicRows
  BY <1>2, <1>5, <1>6, <1>7 DEF TopicRows, States
<1>10. posts' = Append(posts, x) /\ topics' = Append(topics, y) /\ window' = [window EXCEPT ![u] = w]
  BY <1>3 DEF CreateTopicAndFirstPost, ReplacePublicationWindow
<1>11. task' = [task EXCEPT ![t] = Free] /\ UNCHANGED <<now, account, mode>>
  BY DEF createTopic, End
<1>12. /\ x.author = u /\ x.charged = w.start /\ x.text = x.revision /\ x.topic = Len(topics) + 1
       /\ x.number = 1 /\ x.at = now
  BY DEF NewPost
<1>13. ~x.redacted /\ ~x.deleted
  BY DEF NewPost
<1>14. y.latest = Len(posts) + 1 /\ y.replies = 0 /\ y.next = 2 /\ y.activity = now
  OBVIOUS
<1> HIDE DEF x, y
<1>15. Charges(t, w, x)
  BY <1>1, <1>2, <1>3, <1>4, <1>5, <1>8, <1>10, <1>11, <1>12, <1>13 DEF Charges, Publications
<1> QED BY <1>1, <1>4, <1>5, <1>8, <1>9, <1>10, <1>12, <1>14, <1>15 DEF OpensTopic

\* A thread is not longer than the table of posts.
LEMMA ThreadIsFinite ==
    ASSUME TypeOK, NEW k
    PROVE  IsFiniteSet(Thread(k)) /\ Cardinality(Thread(k)) \in Nat /\ Cardinality(Thread(k)) <= Len(posts)
<1>1. Len(posts) \in Nat /\ DOMAIN posts = 1..Len(posts)
  BY DEF TypeOK
<1>2. IsFiniteSet(1..Len(posts)) /\ Cardinality(1..Len(posts)) = Len(posts)
  <2>1. 1 \in Int /\ Len(posts) \in Int
    BY <1>1
  <2>2. /\ IsFiniteSet(1..Len(posts))
        /\ Cardinality(1..Len(posts)) = IF 1 > Len(posts) THEN 0 ELSE Len(posts) - 1 + 1
    BY <2>1, FS_Interval
  <2> QED BY <1>1, <2>2
<1>3. Thread(k) \in SUBSET (1..Len(posts))
  BY <1>1 DEF Thread
<1>4. IsFiniteSet(Thread(k)) /\ Cardinality(Thread(k)) <= Cardinality(1..Len(posts))
  BY <1>2, <1>3, FS_Subset, SMTT(30)
<1> QED BY <1>2, <1>4, FS_CardinalityType

LEMMA ReplyAdds ==
    ASSUME TypeOK, References, ThreadIsConsistent, LocksHold, NEW t \in Slots, createReply(t)
    PROVE  \E w \in Windows, x \in PostRows, y \in TopicRows : AddsReply(t, w, x, y)
<1> USE PolicyAssumption, BoundsAssumption
<1> DEFINE u == task[t].user
           p == task[t].post
           k == posts[p].topic
           number == topics[k].next
           at == Later(now, topics[k].activity)
           depth == posts[p].depth + 1
<1>1. task[t].kind = "reply" /\ task[t].step = "target" /\ Replying(t)
  BY DEF createReply, Replying
<1>2. u \in Users /\ task[t].window \in Windows /\ HoldsActor(t) /\ p \in DOMAIN posts
  BY <1>1, SlotType DEF HoldsActor, References, PostKinds
<1>3. k \in DOMAIN topics /\ TopicOf(t) = k /\ posts[p].depth < MaximumReplyDepth
  BY <1>1, <1>2, TopicOfPost DEF References, PostKinds, LocksHold
<1>4. posts[p] \in PostRows /\ p \in 1..MaxPosts /\ topics[k] \in TopicRows /\ k \in 1..MaxTopics
  BY <1>2, <1>3, PostRow, TopicRow
<1>5. PICK w \in DecidePublication(task[t].window) :
        ReplacePublicationWindow(u, w) /\ CreateReplyAndAdvanceTopic(t, w)
  BY DEF createReply
<1>6. w \in Windows /\ w.start \in 0..MaxTime
  BY <1>2, WindowsAdmitted DEF Windows
<1> DEFINE x == NewPost(t, w, k, number, p, depth, at)
           y == [topics[k] EXCEPT !.latest = Len(posts) + 1, !.replies = number - 1,
                                  !.next = number + 1, !.activity = at]
<1>7. Len(posts) < MaxPosts /\ Len(posts) \in Nat /\ now \in 0..MaxTime
  BY DEF createReply, TypeOK
<1>8. topics[k].activity \in 0..MaxTime /\ number \in 2..MaxPosts + 1
  BY <1>4 DEF TopicRows
<1>9. number = Cardinality(Thread(k)) + 1
  BY <1>3 DEF ThreadIsConsistent, Thread
<1>10. Cardinality(Thread(k)) \in Nat /\ Cardinality(Thread(k)) <= Len(posts)
  BY ThreadIsFinite
<1>11. /\ number \in 1..MaxPosts /\ number - 1 \in 0..MaxPosts /\ number + 1 \in 2..MaxPosts + 1
       /\ at \in 0..MaxTime /\ topics[k].activity <= at
  <2> DEFINE c == Cardinality(Thread(k))
             n == Len(posts)
             b == topics[k].activity
  <2>1. b \in 0..MaxTime /\ at = Later(now, b) /\ c \in Nat /\ c <= n /\ number = c + 1
    BY <1>8, <1>9, <1>10
  <2>2. n < MaxPosts /\ n \in Nat
    BY <1>7
  <2> HIDE DEF number, at, c, n, b
  <2>3. number \in 1..MaxPosts /\ number - 1 \in 0..MaxPosts /\ number + 1 \in 2..MaxPosts + 1
    BY <2>1, <2>2
  <2>4. at \in 0..MaxTime /\ b <= at
    BY <1>7, <2>1 DEF Later
  <2> QED BY <2>3, <2>4 DEF b
<1>12. depth \in 1..MaximumReplyDepth /\ 1 \in 1..MaxRevision /\ Len(posts) + 1 \in 1..MaxPosts
  <2>1. posts[p].depth \in 1..MaximumReplyDepth
    BY <1>4 DEF PostRows
  <2> QED BY <1>3, <1>7, <2>1
<1>13. posts' = Append(posts, x) /\ topics' = [topics EXCEPT ![k] = y] /\ window' = [window EXCEPT ![u] = w]
  BY <1>3, <1>4, <1>5, ZenonT(40) DEF CreateReplyAndAdvanceTopic, ReplacePublicationWindow, TypeOK, TopicRows
<1>14. task' = [task EXCEPT ![t] = Free] /\ UNCHANGED <<now, account, mode>>
  BY DEF createReply, End
<1> HIDE DEF number, at, depth, k
<1>15. x \in PostRows
  <2>1. p \in 0..MaxPosts
    BY <1>4
  <2> HIDE DEF p, u
  <2> QED BY <1>2, <1>4, <1>6, <1>11, <1>12, <2>1 DEF PostRows, NewPost, u
<1>16. y \in TopicRows
  BY <1>4, <1>11, <1>12 DEF TopicRows
<1>17. /\ x.author = u /\ x.charged = w.start /\ x.text = x.revision /\ x.topic = k
       /\ x.number = number /\ x.at = at
  BY DEF NewPost
<1>18. ~x.redacted /\ ~x.deleted
  BY DEF NewPost
<1>19. /\ y.latest = Len(posts) + 1 /\ y.replies = number - 1 /\ y.next = number + 1 /\ y.activity = at
       /\ y.area = topics[k].area /\ y.state = topics[k].state
  BY <1>4 DEF TopicRows
<1> HIDE DEF x, y
<1>20. Charges(t, w, x)
  BY <1>1, <1>2, <1>5, <1>6, <1>7, <1>13, <1>14, <1>15, <1>17, <1>18 DEF Charges, Publications
<1> QED BY <1>1, <1>3, <1>6, <1>11, <1>13, <1>15, <1>16, <1>17, <1>19, <1>20 DEF AddsReply, number, k

-----------------------------------------------------------------------------
(* Every step has one of these shapes. *)

\* The clock, an account or an area.
Around ==
    /\ UNCHANGED <<window, topics, posts, task>>
    /\ \/ now' \in 0..MaxTime /\ UNCHANGED <<account, mode>>
       \/ \E u \in Users :
            /\ ~UserLocked(u) \/ account[u].barred
            /\ \A v \in Users \ {u} : account'[v] = account[v]
            /\ account' \in [Users -> [staff : BOOLEAN, barred : BOOLEAN]]
            /\ UNCHANGED <<now, mode>>
       \/ \E a \in Areas :
            /\ ~AreaShared(a) /\ \A b \in Areas \ {a} : mode'[b] = mode[b]
            /\ mode' \in [Areas -> Modes]
            /\ UNCHANGED <<now, account>>

Shape ==
    \/ UNCHANGED vars
    \/ Around
    \/ \E t \in Slots : Rollback(t)
    \/ \E t \in Slots, x \in Calls :
         Begins(t, x) \/ TakesActor(t, x) \/ TakesTarget(t, x) \/ TakesPost(t, x)
    \/ \E t \in Slots, p \in DOMAIN posts, x \in PostRows : PostChanges(t, p, x)
    \/ \E t \in Slots, k \in DOMAIN topics, x \in TopicRows : TopicChanges(t, k, x)
    \/ \E t \in Slots, w \in Windows, x \in PostRows, y \in TopicRows :
         OpensTopic(t, w, x, y) \/ AddsReply(t, w, x, y)

LEMMA AroundMoves ==
    ASSUME TypeOK,
           \/ ClockMoves
           \/ \E u \in Users : Bar(u) \/ Unbar(u) \/ ChangeRole(u)
           \/ \E a \in Areas, m \in Modes : UpdateArea(a, m)
    PROVE  Around
<1>1. CASE ClockMoves
  <2>1. now' \in 0..MaxTime
    BY <1>1, BoundsAssumption DEF ClockMoves, TypeOK
  <2> QED BY <1>1, <2>1 DEF ClockMoves, Around
<1>2. ASSUME NEW u \in Users, Bar(u) \/ Unbar(u) \/ ChangeRole(u)
      PROVE  Around
  <2>1. UNCHANGED <<now, window, mode, topics, posts, task>> /\ (~UserLocked(u) \/ account[u].barred)
    BY <1>2 DEF Bar, Unbar, ChangeRole
  <2>2. /\ account' \in [Users -> [staff : BOOLEAN, barred : BOOLEAN]]
        /\ \A v \in Users \ {u} : account'[v] = account[v]
    BY <1>2 DEF Bar, Unbar, ChangeRole, TypeOK
  <2> QED BY <2>1, <2>2 DEF Around
<1>3. ASSUME NEW a \in Areas, NEW m \in Modes, UpdateArea(a, m)
      PROVE  Around
  BY <1>3 DEF UpdateArea, TypeOK, Around
<1> QED BY <1>1, <1>2, <1>3

LEMMA StepShape ==
    ASSUME TypeOK, References, ThreadIsConsistent, TextIsRevision, LocksHold, [Next]_vars
    PROVE  Shape
<1> USE DEF Shape
<1>1. CASE UNCHANGED vars
  BY <1>1
<1>2. CASE \/ ClockMoves
           \/ \E u \in Users : Bar(u) \/ Unbar(u) \/ ChangeRole(u)
           \/ \E a \in Areas, m \in Modes : UpdateArea(a, m)
  BY <1>2, AroundMoves
<1>3. ASSUME NEW t \in Slots,
             \/ \E u \in Users, a \in Areas : StartTopic(t, u, a)
             \/ \E u \in Users, p \in DOMAIN posts : StartReply(t, u, p)
             \/ \E kind \in {"edit", "delete"}, p \in DOMAIN posts : StartChange(t, kind, p)
             \/ \E u \in Users, kind \in TopicActions \cup Pinning, k \in DOMAIN topics : StartTopicAction(t, u, kind, k)
             \/ \E u \in Users, k \in DOMAIN topics, a \in Areas : StartMove(t, u, k, a)
             \/ \E u \in Users, kind \in PostActions, p \in DOMAIN posts : StartPostAction(t, u, kind, p)
      PROVE  \E x \in Calls : Begins(t, x)
  BY <1>3, PublicationBegins, ChangeBegins, ModerationBegins
<1>4. ASSUME NEW t \in Slots,
             lockPublicationActor(t) \/ LockModerator(t) \/ LockTopicForReply(t) \/ LockPostForEdit(t)
      PROVE  \E x \in Calls : TakesActor(t, x) \/ TakesTarget(t, x) \/ TakesPost(t, x)
  BY <1>4, PublicationTakesActor, ModeratorTakesActor, ReplyTakesTarget, ChangeTakesPost
<1>5. ASSUME NEW t \in Slots, EditPost(t) \/ DeletePost(t) \/ applyPostAction(t)
      PROVE  \E p \in DOMAIN posts, x \in PostRows : PostChanges(t, p, x)
  BY <1>5, EditChanges, DeleteChanges, ModerationChanges
<1>6. ASSUME NEW t \in Slots, changeTopicState(t) \/ pinTopic(t) \/ moveTopic(t)
      PROVE  \E k \in DOMAIN topics, x \in TopicRows : TopicChanges(t, k, x)
  BY <1>6, StateChanges, PinChanges, AreaChanges
<1>7. ASSUME NEW t \in Slots, createTopic(t) \/ createReply(t)
      PROVE  \E w \in Windows, x \in PostRows, y \in TopicRows :
               OpensTopic(t, w, x, y) \/ AddsReply(t, w, x, y)
  BY <1>7, TopicOpens, ReplyAdds
<1> HIDE DEF Shape
<1> QED BY <1>1, <1>2, <1>3, <1>4, <1>5, <1>6, <1>7 DEF Next, Shape

-----------------------------------------------------------------------------
(* What a shape makes of the rows. *)

LEMMA PostReplaced ==
    ASSUME TypeOK, NEW p \in DOMAIN posts, NEW x \in PostRows, posts' = [posts EXCEPT ![p] = x]
    PROVE  /\ posts' \in Seq(PostRows) /\ Len(posts') = Len(posts) /\ DOMAIN posts' = DOMAIN posts
           /\ posts'[p] = x /\ \A q \in DOMAIN posts \ {p} : posts'[q] = posts[q]
  BY DEF TypeOK

LEMMA TopicReplaced ==
    ASSUME TypeOK, NEW k \in DOMAIN topics, NEW y \in TopicRows, topics' = [topics EXCEPT ![k] = y]
    PROVE  /\ topics' \in Seq(TopicRows) /\ Len(topics') = Len(topics) /\ DOMAIN topics' = DOMAIN topics
           /\ topics'[k] = y /\ \A l \in DOMAIN topics \ {k} : topics'[l] = topics[l]
  BY DEF TypeOK

LEMMA PostAppended ==
    ASSUME TypeOK, NEW x \in PostRows, posts' = Append(posts, x)
    PROVE  /\ posts' \in Seq(PostRows) /\ Len(posts') = Len(posts) + 1
           /\ Len(posts) + 1 \notin DOMAIN posts /\ DOMAIN posts' = DOMAIN posts \cup {Len(posts) + 1}
           /\ posts'[Len(posts) + 1] = x /\ \A q \in DOMAIN posts : posts'[q] = posts[q]
<1>1. posts \in Seq(PostRows) /\ Len(posts) \in Nat /\ DOMAIN posts = 1..Len(posts)
  BY DEF TypeOK
<1>2. /\ posts' \in Seq(PostRows) /\ Len(posts') = Len(posts) + 1 /\ posts'[Len(posts) + 1] = x
      /\ \A q \in 1..Len(posts) : posts'[q] = posts[q]
  BY <1>1, AppendProperties
<1>3. DOMAIN posts' = 1..(Len(posts) + 1)
  BY <1>2
<1> QED BY <1>1, <1>2, <1>3

LEMMA TopicAppended ==
    ASSUME TypeOK, NEW y \in TopicRows, topics' = Append(topics, y)
    PROVE  /\ topics' \in Seq(TopicRows) /\ Len(topics') = Len(topics) + 1
           /\ Len(topics) + 1 \notin DOMAIN topics /\ DOMAIN topics' = DOMAIN topics \cup {Len(topics) + 1}
           /\ topics'[Len(topics) + 1] = y /\ \A l \in DOMAIN topics : topics'[l] = topics[l]
<1>1. topics \in Seq(TopicRows) /\ Len(topics) \in Nat /\ DOMAIN topics = 1..Len(topics)
  BY DEF TypeOK
<1>2. /\ topics' \in Seq(TopicRows) /\ Len(topics') = Len(topics) + 1 /\ topics'[Len(topics) + 1] = y
      /\ \A l \in 1..Len(topics) : topics'[l] = topics[l]
  BY <1>1, AppendProperties
<1>3. DOMAIN topics' = 1..(Len(topics) + 1)
  BY <1>2
<1> QED BY <1>1, <1>2, <1>3

\* What identifies a post, its place and its time never change.
RowsKeep == \A p \in DOMAIN posts : p \in DOMAIN posts' /\ SameRow(posts'[p], posts[p])

LEMMA ShapeKeepsRows ==
    ASSUME TypeOK, Shape
    PROVE  RowsKeep /\ \A k \in DOMAIN topics : k \in DOMAIN topics'
<1> USE DEF RowsKeep, SameRow
<1>1. CASE UNCHANGED <<topics, posts>>
  BY <1>1
<1>2. ASSUME NEW t \in Slots, NEW p \in DOMAIN posts, NEW x \in PostRows, PostChanges(t, p, x)
      PROVE  RowsKeep /\ \A k \in DOMAIN topics : k \in DOMAIN topics'
  <2>1. posts' = [posts EXCEPT ![p] = x] /\ SameRow(x, posts[p]) /\ topics' = topics
    BY <1>2 DEF PostChanges
  <2> QED BY <2>1, PostReplaced
<1>3. ASSUME NEW t \in Slots, NEW k \in DOMAIN topics, NEW y \in TopicRows, TopicChanges(t, k, y)
      PROVE  RowsKeep /\ \A l \in DOMAIN topics : l \in DOMAIN topics'
  <2>1. topics' = [topics EXCEPT ![k] = y] /\ posts' = posts
    BY <1>3 DEF TopicChanges
  <2> QED BY <2>1, TopicReplaced
<1>4. ASSUME NEW t \in Slots, NEW w \in Windows, NEW x \in PostRows, NEW y \in TopicRows,
             OpensTopic(t, w, x, y) \/ AddsReply(t, w, x, y)
      PROVE  RowsKeep /\ \A k \in DOMAIN topics : k \in DOMAIN topics'
  <2>1. posts' = Append(posts, x)
    BY <1>4 DEF OpensTopic, AddsReply, Charges
  <2>2. \/ topics' = Append(topics, y)
        \/ \E k \in DOMAIN topics : topics' = [topics EXCEPT ![k] = y]
    BY <1>4 DEF OpensTopic, AddsReply
  <2>3. \A k \in DOMAIN topics : k \in DOMAIN topics'
    BY <2>2, TopicAppended, TopicReplaced
  <2>4. RowsKeep
    BY <2>1, PostAppended
  <2> QED BY <2>3, <2>4
<1>5. CASE \/ UNCHANGED vars \/ Around
           \/ \E t \in Slots : Rollback(t)
           \/ \E t \in Slots, x \in Calls :
                Begins(t, x) \/ TakesActor(t, x) \/ TakesTarget(t, x) \/ TakesPost(t, x)
  <2>1. UNCHANGED <<topics, posts>>
    BY <1>5 DEF vars, Around, Rollback, Begins, TakesActor, TakesTarget, TakesPost, Advances
  <2> QED BY <1>1, <2>1
<1> QED BY <1>2, <1>3, <1>4, <1>5 DEF Shape

LEMMA TypeStep ==
    ASSUME TypeOK, Shape
    PROVE  TypeOK'
<1>1. CASE UNCHANGED vars
  BY <1>1 DEF vars, TypeOK
<1>2. CASE Around
  BY <1>2 DEF Around, TypeOK
<1>3. ASSUME NEW t \in Slots, Rollback(t)
      PROVE  TypeOK'
  <2>1. UNCHANGED <<now, people, mode, topics, posts>> /\ task' = [task EXCEPT ![t] = Free]
    BY <1>3 DEF Rollback, End
  <2> QED BY <2>1 DEF TypeOK
<1>4. ASSUME NEW t \in Slots, NEW x \in Calls,
             Begins(t, x) \/ TakesActor(t, x) \/ TakesTarget(t, x) \/ TakesPost(t, x)
      PROVE  TypeOK'
  <2>1. UNCHANGED <<now, people, mode, topics, posts>> /\ task' = [task EXCEPT ![t] = x]
    BY <1>4 DEF Begins, TakesActor, TakesTarget, TakesPost, Advances
  <2> QED BY <2>1 DEF TypeOK
<1>5. ASSUME NEW t \in Slots, NEW p \in DOMAIN posts, NEW x \in PostRows, PostChanges(t, p, x)
      PROVE  TypeOK'
  <2>1. /\ UNCHANGED <<now, people, mode, topics>> /\ task' = [task EXCEPT ![t] = Free]
        /\ posts' = [posts EXCEPT ![p] = x]
    BY <1>5 DEF PostChanges
  <2>2. posts' \in Seq(PostRows) /\ Len(posts') = Len(posts)
    BY <2>1, PostReplaced
  <2> QED BY <2>1, <2>2 DEF TypeOK
<1>6. ASSUME NEW t \in Slots, NEW k \in DOMAIN topics, NEW y \in TopicRows, TopicChanges(t, k, y)
      PROVE  TypeOK'
  <2>1. /\ UNCHANGED <<now, people, mode, posts>> /\ task' = [task EXCEPT ![t] = Free]
        /\ topics' = [topics EXCEPT ![k] = y]
    BY <1>6 DEF TopicChanges
  <2>2. topics' \in Seq(TopicRows) /\ Len(topics') = Len(topics)
    BY <2>1, TopicReplaced
  <2> QED BY <2>1, <2>2 DEF TypeOK
<1>7. ASSUME NEW t \in Slots, NEW w \in Windows, NEW x \in PostRows, NEW y \in TopicRows,
             OpensTopic(t, w, x, y) \/ AddsReply(t, w, x, y)
      PROVE  TypeOK'
  <2> USE BoundsAssumption
  <2>1. Charges(t, w, x)
    BY <1>7 DEF OpensTopic, AddsReply
  <2>2. /\ UNCHANGED <<now, account, mode>> /\ task' = [task EXCEPT ![t] = Free]
        /\ posts' = Append(posts, x) /\ Len(posts) < MaxPosts
        /\ window' = [window EXCEPT ![task[t].user] = w]
    BY <2>1 DEF Charges
  <2>3. posts' \in Seq(PostRows) /\ Len(posts') = Len(posts) + 1
    BY <2>2, PostAppended
  <2>4. topics' \in Seq(TopicRows) /\ Len(topics') <= MaxTopics
    <3>1. Len(topics) \in Nat /\ Len(topics) <= MaxTopics
      BY DEF TypeOK
    <3>2. CASE OpensTopic(t, w, x, y)
      <4>1. topics' = Append(topics, y) /\ Len(topics) < MaxTopics
        BY <3>2 DEF OpensTopic
      <4>2. topics' \in Seq(TopicRows) /\ Len(topics') = Len(topics) + 1
        BY <4>1, TopicAppended
      <4> QED BY <3>1, <4>1, <4>2
    <3>3. CASE AddsReply(t, w, x, y)
      <4>1. \E k \in DOMAIN topics : topics' = [topics EXCEPT ![k] = y]
        BY <3>3 DEF AddsReply
      <4>2. topics' \in Seq(TopicRows) /\ Len(topics') = Len(topics)
        BY <4>1, TopicReplaced
      <4> QED BY <3>1, <4>2
    <3> QED BY <1>7, <3>2, <3>3
  <2>5. Len(posts') <= MaxPosts
    <3>1. Len(posts) \in Nat
      BY DEF TypeOK
    <3> QED BY <2>2, <2>3, <3>1
  <2> QED BY <2>2, <2>3, <2>4, <2>5 DEF TypeOK
<1> QED BY <1>1, <1>2, <1>3, <1>4, <1>5, <1>6, <1>7 DEF Shape

-----------------------------------------------------------------------------
(* References, bodies and threads. *)

\* What becomes of one call.
LEMMA CallMoves ==
    ASSUME TypeOK, Shape, NEW s \in Slots
    PROVE  \/ task'[s] = task[s]
           \/ task'[s] = Free
           \/ \E x \in Calls : /\ task'[s] = x
                               /\ Begins(s, x) \/ TakesActor(s, x) \/ TakesTarget(s, x) \/ TakesPost(s, x)
<1>1. CASE UNCHANGED task
  BY <1>1
<1>2. ASSUME NEW t \in Slots, task' = [task EXCEPT ![t] = Free]
      PROVE  task'[s] = task[s] \/ task'[s] = Free
  BY <1>2 DEF TypeOK
<1>3. ASSUME NEW t \in Slots, NEW x \in Calls,
             Begins(t, x) \/ TakesActor(t, x) \/ TakesTarget(t, x) \/ TakesPost(t, x)
      PROVE  \/ task'[s] = task[s]
             \/ \E z \in Calls : /\ task'[s] = z
                                 /\ Begins(s, z) \/ TakesActor(s, z) \/ TakesTarget(s, z) \/ TakesPost(s, z)
  <2>1. task' = [task EXCEPT ![t] = x]
    BY <1>3 DEF Begins, TakesActor, TakesTarget, TakesPost, Advances
  <2>2. CASE s = t
    <3>1. task'[s] = x
      BY <2>1, <2>2, TaskSet
    <3> QED BY <1>3, <2>2, <3>1
  <2>3. CASE s # t
    BY <2>1, <2>3, TaskSet
  <2> QED BY <2>2, <2>3
<1>4. \/ UNCHANGED task
      \/ \E t \in Slots : task' = [task EXCEPT ![t] = Free]
      \/ \E t \in Slots, x \in Calls :
           Begins(t, x) \/ TakesActor(t, x) \/ TakesTarget(t, x) \/ TakesPost(t, x)
  <2>1. UNCHANGED vars \/ Around => UNCHANGED task
    BY DEF vars, Around
  <2>2. ASSUME NEW t \in Slots
        PROVE  /\ Rollback(t) => task' = [task EXCEPT ![t] = Free]
               /\ \A p, x : PostChanges(t, p, x) => task' = [task EXCEPT ![t] = Free]
               /\ \A k, x : TopicChanges(t, k, x) => task' = [task EXCEPT ![t] = Free]
    BY DEF Rollback, End, PostChanges, TopicChanges
  <2>3. ASSUME NEW t \in Slots
        PROVE  \A w, x, y : OpensTopic(t, w, x, y) \/ AddsReply(t, w, x, y)
                             => task' = [task EXCEPT ![t] = Free]
    BY DEF OpensTopic, AddsReply, Charges
  <2> QED BY <2>1, <2>2, <2>3 DEF Shape
<1> QED BY <1>1, <1>2, <1>3, <1>4

LEMMA RowMoves ==
    ASSUME Shape
    PROVE  \/ UNCHANGED <<topics, posts>>
           \/ \E t \in Slots, p \in DOMAIN posts, x \in PostRows : PostChanges(t, p, x)
           \/ \E t \in Slots, k \in DOMAIN topics, x \in TopicRows : TopicChanges(t, k, x)
           \/ \E t \in Slots, w \in Windows, x \in PostRows, y \in TopicRows :
                OpensTopic(t, w, x, y) \/ AddsReply(t, w, x, y)
  BY DEF Shape, vars, Around, Rollback, Begins, TakesActor, TakesTarget, TakesPost, Advances

LEMMA ReferencesStep ==
    ASSUME TypeOK, References, Shape
    PROVE  References'
<1>1. RowsKeep /\ \A k \in DOMAIN topics : k \in DOMAIN topics'
  BY ShapeKeepsRows
<1>2. ASSUME NEW s \in Slots
      PROVE  /\ task'[s].kind \in PostKinds => task'[s].post \in DOMAIN posts'
             /\ task'[s].kind \in TopicKinds => task'[s].topic \in DOMAIN topics'
  <2>1. CASE task'[s] = task[s]
    BY <1>1, <2>1 DEF References, RowsKeep
  <2>2. CASE task'[s] = Free
    BY <2>2 DEF Free, PostKinds, PostActions, TopicKinds, TopicActions, Pinning
  <2>3. ASSUME NEW x \in Calls, task'[s] = x, Begins(s, x)
        PROVE  /\ task'[s].kind \in PostKinds => task'[s].post \in DOMAIN posts'
               /\ task'[s].kind \in TopicKinds => task'[s].topic \in DOMAIN topics'
    BY <2>3 DEF Begins
  <2>4. ASSUME NEW x \in Calls, task'[s] = x, TakesActor(s, x) \/ TakesTarget(s, x) \/ TakesPost(s, x)
        PROVE  /\ task'[s].kind \in PostKinds => task'[s].post \in DOMAIN posts'
               /\ task'[s].kind \in TopicKinds => task'[s].topic \in DOMAIN topics'
    <3>1. Advances(s, x)
      BY <2>4 DEF TakesActor, TakesTarget, TakesPost
    <3> QED BY <2>4, <3>1 DEF Advances, References
  <2> QED BY <2>1, <2>2, <2>3, <2>4, CallMoves
<1>3. /\ \A p \in DOMAIN posts' : posts'[p].topic \in DOMAIN topics'
      /\ \A k \in DOMAIN topics' : topics'[k].latest \in DOMAIN posts'
  <2>1. CASE UNCHANGED <<topics, posts>>
    BY <2>1 DEF References
  <2>2. ASSUME NEW t \in Slots, NEW p \in DOMAIN posts, NEW x \in PostRows, PostChanges(t, p, x)
        PROVE  <1>3!1 /\ <1>3!2
    <3>1. posts' = [posts EXCEPT ![p] = x] /\ topics' = topics
      BY <2>2 DEF PostChanges
    <3>2. DOMAIN posts' = DOMAIN posts
      BY <3>1, PostReplaced
    <3> QED BY <1>1, <3>1, <3>2 DEF RowsKeep, SameRow, References
  <2>3. ASSUME NEW t \in Slots, NEW k \in DOMAIN topics, NEW y \in TopicRows, TopicChanges(t, k, y)
        PROVE  <1>3!1 /\ <1>3!2
    <3>1. posts' = posts /\ topics' = [topics EXCEPT ![k] = y] /\ y.latest = topics[k].latest
      BY <2>3 DEF TopicChanges
    <3> QED BY <3>1, TopicReplaced DEF References
  <2>4. ASSUME NEW t \in Slots, NEW w \in Windows, NEW x \in PostRows, NEW y \in TopicRows,
               OpensTopic(t, w, x, y)
        PROVE  <1>3!1 /\ <1>3!2
    <3>1. posts' = Append(posts, x) /\ topics' = Append(topics, y)
      BY <2>4 DEF OpensTopic, Charges
    <3>2. x.topic = Len(topics) + 1 /\ y.latest = Len(posts) + 1
      BY <2>4 DEF OpensTopic
    <3> QED BY <3>1, <3>2, PostAppended, TopicAppended DEF References
  <2>5. ASSUME NEW t \in Slots, NEW w \in Windows, NEW x \in PostRows, NEW y \in TopicRows,
               AddsReply(t, w, x, y)
        PROVE  <1>3!1 /\ <1>3!2
    <3> DEFINE k == posts[task[t].post].topic
    <3>1. posts' = Append(posts, x) /\ topics' = [topics EXCEPT ![k] = y] /\ k \in DOMAIN topics
      BY <2>5 DEF AddsReply, Charges
    <3>2. x.topic = k /\ y.latest = Len(posts) + 1
      BY <2>5 DEF AddsReply
    <3> HIDE DEF k
    <3> QED BY <3>1, <3>2, PostAppended, TopicReplaced DEF References
  <2> QED BY <2>1, <2>2, <2>3, <2>4, <2>5, RowMoves
<1> QED BY <1>2, <1>3 DEF References

LEMMA TextStep ==
    ASSUME TypeOK, TextIsRevision, Shape
    PROVE  TextIsRevision'
<1>1. ASSUME NEW s \in Slots
      PROVE  task'[s].kind \in {"edit", "delete"} => task'[s].text = task'[s].revision
  <2>1. CASE task'[s] = task[s]
    BY <2>1 DEF TextIsRevision
  <2>2. CASE task'[s] = Free
    BY <2>2 DEF Free
  <2>3. ASSUME NEW x \in Calls, task'[s] = x, Begins(s, x)
        PROVE  task'[s].kind \in {"edit", "delete"} => task'[s].text = task'[s].revision
    BY <2>3 DEF Begins
  <2>4. ASSUME NEW x \in Calls, task'[s] = x, TakesActor(s, x) \/ TakesTarget(s, x) \/ TakesPost(s, x)
        PROVE  task'[s].kind \in {"edit", "delete"} => task'[s].text = task'[s].revision
    <3>1. Advances(s, x)
      BY <2>4 DEF TakesActor, TakesTarget, TakesPost
    <3> QED BY <2>4, <3>1 DEF Advances, TextIsRevision
  <2> QED BY <2>1, <2>2, <2>3, <2>4, CallMoves
<1>2. ASSUME NEW q \in DOMAIN posts'
      PROVE  posts'[q].text = posts'[q].revision /\ (posts'[q].redacted => posts'[q].deleted)
  <2>1. CASE UNCHANGED posts
    BY <2>1 DEF TextIsRevision
  <2>2. ASSUME NEW t \in Slots, NEW p \in DOMAIN posts, NEW x \in PostRows, PostChanges(t, p, x)
        PROVE  <1>2!2
    <3>1. posts' = [posts EXCEPT ![p] = x] /\ x.text = x.revision /\ (x.redacted => x.deleted)
      BY <2>2 DEF PostChanges
    <3>2. DOMAIN posts' = DOMAIN posts /\ posts'[p] = x /\ \A r \in DOMAIN posts \ {p} : posts'[r] = posts[r]
      BY <3>1, PostReplaced
    <3> QED BY <3>1, <3>2 DEF TextIsRevision
  <2>3. ASSUME NEW t \in Slots, NEW w \in Windows, NEW x \in PostRows, NEW y \in TopicRows,
               OpensTopic(t, w, x, y) \/ AddsReply(t, w, x, y)
        PROVE  <1>2!2
    <3>1. Charges(t, w, x)
      BY <2>3 DEF OpensTopic, AddsReply
    <3>2. posts' = Append(posts, x) /\ x.text = x.revision /\ ~x.redacted
      BY <3>1 DEF Charges
    <3>3. /\ DOMAIN posts' = DOMAIN posts \cup {Len(posts) + 1} /\ posts'[Len(posts) + 1] = x
          /\ \A r \in DOMAIN posts : posts'[r] = posts[r]
      BY <3>2, PostAppended
    <3> QED BY <3>2, <3>3 DEF TextIsRevision
  <2>4. ASSUME NEW t \in Slots, NEW k \in DOMAIN topics, NEW y \in TopicRows, TopicChanges(t, k, y)
        PROVE  UNCHANGED posts
    BY <2>4 DEF TopicChanges
  <2> QED BY <2>1, <2>2, <2>3, <2>4, RowMoves
<1> QED BY <1>1, <1>2 DEF TextIsRevision

\* The thread of one topic: what ThreadIsConsistent says of it.
ThreadAt(k) ==
    /\ {posts[p].number : p \in Thread(k)} = 1..Cardinality(Thread(k))
    /\ topics[k].replies = Cardinality(Thread(k)) - 1 /\ topics[k].next = Cardinality(Thread(k)) + 1
    /\ posts[topics[k].latest].topic = k /\ posts[topics[k].latest].number = Cardinality(Thread(k))
    /\ posts[topics[k].latest].at = topics[k].activity
    /\ \A p, q \in Thread(k) : posts[p].number < posts[q].number => posts[p].at <= posts[q].at
    /\ \A p \in Thread(k) : posts[p].at <= topics[k].activity

LEMMA ThreadsAreAt ==
    ASSUME ThreadIsConsistent, ActivityIsLatest, NEW k \in DOMAIN topics
    PROVE  ThreadAt(k)
  BY DEF ThreadIsConsistent, ActivityIsLatest, ThreadAt, Thread

\* A thread that gets no post keeps what it says.
LEMMA ThreadStays ==
    ASSUME References, RowsKeep, NEW k \in DOMAIN topics, ThreadAt(k), Thread(k)' = Thread(k),
           topics'[k].latest = topics[k].latest, topics'[k].replies = topics[k].replies,
           topics'[k].next = topics[k].next, topics'[k].activity = topics[k].activity
    PROVE  ThreadAt(k)'
<1>1. \A p \in Thread(k) : /\ posts'[p].number = posts[p].number /\ posts'[p].at = posts[p].at
                           /\ posts'[p].topic = posts[p].topic
  BY DEF RowsKeep, SameRow, Thread
<1>2. topics[k].latest \in DOMAIN posts
  BY DEF References
<1>3. topics[k].latest \in Thread(k)
  BY <1>2 DEF ThreadAt, Thread
<1> DEFINE T == Thread(k)
           U == {posts'[p].number : p \in T}
<1>4. U = {posts[p].number : p \in T}
  BY <1>1
<1>5. \A p, q \in T : posts'[p].number < posts'[q].number => posts'[p].at <= posts'[q].at
  BY <1>1 DEF ThreadAt
<1>6. \A p \in T : posts'[p].at <= topics'[k].activity
  BY <1>1 DEF ThreadAt
<1>7. /\ posts'[topics'[k].latest].topic = k /\ posts'[topics'[k].latest].number = Cardinality(T)
      /\ posts'[topics'[k].latest].at = topics'[k].activity
  BY <1>1, <1>3 DEF ThreadAt
<1>8. /\ U = 1..Cardinality(T)
      /\ topics'[k].replies = Cardinality(T) - 1 /\ topics'[k].next = Cardinality(T) + 1
  BY <1>4 DEF ThreadAt
<1>9. Thread(k)' = T
  OBVIOUS
<1> HIDE DEF T
<1> QED BY <1>5, <1>6, <1>7, <1>8, <1>9 DEF ThreadAt

\* A reply is the next of its thread, and not older than what is there.
LEMMA ThreadGrows ==
    ASSUME TypeOK, NEW k \in DOMAIN topics, ThreadAt(k), NEW x \in PostRows, NEW y \in TopicRows,
           posts' = Append(posts, x), x.topic = k, x.number = topics[k].next, x.at = y.activity,
           topics'[k] = y, y.latest = Len(posts) + 1, y.replies = topics[k].next - 1,
           y.next = topics[k].next + 1, topics[k].activity <= y.activity
    PROVE  ThreadAt(k)'
<1> DEFINE n == Len(posts) + 1
           T == Thread(k)
           c == Cardinality(T)
           V == T \cup {n}
<1>1. /\ n \notin DOMAIN posts /\ DOMAIN posts' = DOMAIN posts \cup {n} /\ posts'[n] = x
      /\ \A q \in DOMAIN posts : posts'[q] = posts[q]
  BY PostAppended
<1>2. \A p \in T : p \in DOMAIN posts /\ posts'[p] = posts[p] /\ p # n
  BY <1>1 DEF Thread
<1>3. Thread(k)' = V
  BY <1>1 DEF Thread
<1>4. IsFiniteSet(T) /\ c \in Nat /\ n \notin T
  BY <1>2, ThreadIsFinite
<1>5. Cardinality(V) = c + 1
  BY <1>4, FS_AddElement
<1>6. topics[k].next = c + 1 /\ {posts[p].number : p \in T} = 1..c
  BY DEF ThreadAt
<1>7. x.number = c + 1 /\ y.replies = c /\ y.next = c + 2
  BY <1>4, <1>6
<1>8. {posts'[p].number : p \in V} = 1..(c + 1)
  <2>1. {posts'[p].number : p \in V} = {posts'[p].number : p \in T} \cup {posts'[n].number}
    OBVIOUS
  <2>2. {posts'[p].number : p \in T} = {posts[p].number : p \in T}
    BY <1>2
  <2>3. {posts'[p].number : p \in V} = (1..c) \cup {c + 1}
    BY <1>1, <1>6, <1>7, <2>1, <2>2
  <2>4. (1..c) \cup {c + 1} = 1..(c + 1)
    BY <1>4
  <2> QED BY <2>3, <2>4
<1>9. \A p \in T : /\ posts[p].number \in 1..c /\ posts[p].at \in 0..MaxTime
                   /\ posts[p].at <= topics[k].activity
  <2>1. \A p \in T : posts[p].number \in 1..c
    BY <1>6
  <2>2. \A p \in T : posts[p].at \in 0..MaxTime
    BY <1>2, PostRow DEF PostRows
  <2> QED BY <2>1, <2>2 DEF ThreadAt
<1>10. topics[k].activity \in 0..MaxTime /\ y.activity \in 0..MaxTime
  BY TopicRow DEF TopicRows
<1>11. \A p \in T : posts[p].at <= y.activity
  <2> TAKE p \in T
  <2>1. posts[p].at \in Int /\ topics[k].activity \in Int /\ y.activity \in Int
    BY <1>9, <1>10
  <2> QED BY <1>9, <2>1
<1>12. \A p \in V : posts'[p].at <= y.activity
  <2>1. y.activity <= y.activity
    BY <1>10
  <2> QED BY <1>1, <1>2, <1>11, <2>1
<1>13. \A p, q \in V : posts'[p].number < posts'[q].number => posts'[p].at <= posts'[q].at
  <2> TAKE p, q \in V
  <2> HAVE posts'[p].number < posts'[q].number
  <2>1. CASE q = n
    BY <1>1, <1>12, <2>1
  <2>2. CASE p = n /\ q # n
    <3>1. q \in T /\ posts'[q] = posts[q] /\ posts'[p] = x
      BY <1>1, <1>2, <2>2
    <3>2. posts[q].number \in 1..c /\ c + 1 < posts[q].number
      BY <1>7, <1>9, <3>1
    <3> QED BY <1>4, <3>2
  <2>3. CASE p # n /\ q # n
    <3>1. p \in T /\ q \in T /\ posts'[p] = posts[p] /\ posts'[q] = posts[q]
      BY <1>2, <2>3
    <3> QED BY <3>1 DEF ThreadAt
  <2> QED BY <2>1, <2>2, <2>3
<1>14. /\ posts'[topics'[k].latest].topic = k /\ posts'[topics'[k].latest].number = c + 1
       /\ posts'[topics'[k].latest].at = topics'[k].activity
  BY <1>1, <1>7
<1>15. topics'[k].replies = (c + 1) - 1 /\ topics'[k].next = (c + 1) + 1 /\ topics'[k].activity = y.activity
  BY <1>4, <1>7
<1> HIDE DEF V, c
<1> QED BY <1>3, <1>5, <1>8, <1>12, <1>13, <1>14, <1>15 DEF ThreadAt

\* A topic begins with one post.
LEMMA ThreadOpens ==
    ASSUME TypeOK, References, NEW k, NEW x \in PostRows, NEW y \in TopicRows,
           k = Len(topics) + 1, posts' = Append(posts, x), topics' = Append(topics, y),
           x.topic = k, x.number = 1, x.at = y.activity,
           y.latest = Len(posts) + 1, y.replies = 0, y.next = 2
    PROVE  ThreadAt(k)'
<1> DEFINE n == Len(posts) + 1
<1>1. /\ DOMAIN posts' = DOMAIN posts \cup {n} /\ posts'[n] = x
      /\ \A q \in DOMAIN posts : posts'[q] = posts[q]
  BY PostAppended
<1>2. k \notin DOMAIN topics /\ topics'[k] = y
  BY TopicAppended
<1>3. Thread(k)' = {n}
  BY <1>1, <1>2 DEF Thread, References
<1>4. Cardinality({n}) = 1
  BY FS_Singleton
<1>5. {posts'[p].number : p \in {n}} = 1..1
  BY <1>1
<1>6. posts'[n].at <= topics'[k].activity /\ ~(posts'[n].number < posts'[n].number)
  <2>1. y.activity \in Int
    BY DEF TopicRows
  <2> QED BY <1>1, <1>2, <2>1
<1>7. topics'[k].latest = n /\ topics'[k].replies = 1 - 1 /\ topics'[k].next = 1 + 1
  BY <1>2
<1> HIDE DEF n
<1> QED BY <1>1, <1>2, <1>3, <1>4, <1>5, <1>6, <1>7 DEF ThreadAt

LEMMA ThreadStep ==
    ASSUME TypeOK, References, ThreadIsConsistent, ActivityIsLatest, Shape
    PROVE  ThreadIsConsistent' /\ ActivityIsLatest'
<1>1. RowsKeep
  BY ShapeKeepsRows
<1>2. \A k \in DOMAIN topics : ThreadAt(k)
  BY ThreadsAreAt
<1>3. ASSUME NEW k \in DOMAIN topics'
      PROVE  ThreadAt(k)'
  <2>1. CASE UNCHANGED <<topics, posts>>
    <3>1. Thread(k)' = Thread(k)
      BY <2>1 DEF Thread
    <3> QED BY <1>1, <1>2, <2>1, <3>1, ThreadStays
  <2>2. ASSUME NEW t \in Slots, NEW p \in DOMAIN posts, NEW x \in PostRows, PostChanges(t, p, x)
        PROVE  ThreadAt(k)'
    <3>1. posts' = [posts EXCEPT ![p] = x] /\ topics' = topics
      BY <2>2 DEF PostChanges
    <3>2. DOMAIN posts' = DOMAIN posts
      BY <3>1, PostReplaced
    <3>3. Thread(k)' = Thread(k)
      BY <1>1, <3>2 DEF Thread, RowsKeep, SameRow
    <3> QED BY <1>1, <1>2, <3>1, <3>3, ThreadStays
  <2>3. ASSUME NEW t \in Slots, NEW l \in DOMAIN topics, NEW y \in TopicRows, TopicChanges(t, l, y)
        PROVE  ThreadAt(k)'
    <3>1. /\ posts' = posts /\ topics' = [topics EXCEPT ![l] = y]
          /\ y.latest = topics[l].latest /\ y.replies = topics[l].replies
          /\ y.next = topics[l].next /\ y.activity = topics[l].activity
      BY <2>3 DEF TopicChanges
    <3>2. /\ k \in DOMAIN topics /\ topics'[l] = y
          /\ \A m \in DOMAIN topics \ {l} : topics'[m] = topics[m]
      BY <3>1, TopicReplaced
    <3>3. /\ topics'[k].latest = topics[k].latest /\ topics'[k].replies = topics[k].replies
          /\ topics'[k].next = topics[k].next /\ topics'[k].activity = topics[k].activity
      BY <3>1, <3>2
    <3>4. Thread(k)' = Thread(k)
      BY <3>1 DEF Thread
    <3> QED BY <1>1, <1>2, <3>2, <3>3, <3>4, ThreadStays
  <2>4. ASSUME NEW t \in Slots, NEW w \in Windows, NEW x \in PostRows, NEW y \in TopicRows,
               OpensTopic(t, w, x, y)
        PROVE  ThreadAt(k)'
    <3>1. /\ posts' = Append(posts, x) /\ topics' = Append(topics, y)
          /\ x.topic = Len(topics) + 1 /\ x.number = 1 /\ x.at = y.activity
          /\ y.latest = Len(posts) + 1 /\ y.replies = 0 /\ y.next = 2
      BY <2>4 DEF OpensTopic, Charges
    <3>2. CASE k = Len(topics) + 1
      BY <3>1, <3>2, ThreadOpens
    <3>3. CASE k # Len(topics) + 1
      <4>1. k \in DOMAIN topics /\ topics'[k] = topics[k]
        BY <3>1, <3>3, TopicAppended
      <4>2. Thread(k)' = Thread(k)
        BY <3>1, <3>3, PostAppended DEF Thread
      <4> QED BY <1>1, <1>2, <4>1, <4>2, ThreadStays
    <3> QED BY <3>2, <3>3
  <2>5. ASSUME NEW t \in Slots, NEW w \in Windows, NEW x \in PostRows, NEW y \in TopicRows,
               AddsReply(t, w, x, y)
        PROVE  ThreadAt(k)'
    <3> DEFINE l == posts[task[t].post].topic
    <3>1. /\ posts' = Append(posts, x) /\ topics' = [topics EXCEPT ![l] = y] /\ l \in DOMAIN topics
          /\ x.topic = l /\ x.number = topics[l].next /\ x.at = y.activity
          /\ y.latest = Len(posts) + 1 /\ y.replies = topics[l].next - 1
          /\ y.next = topics[l].next + 1 /\ topics[l].activity <= y.activity
      BY <2>5 DEF AddsReply, Charges
    <3> HIDE DEF l
    <3>2. /\ k \in DOMAIN topics /\ topics'[l] = y
          /\ \A m \in DOMAIN topics \ {l} : topics'[m] = topics[m]
      BY <3>1, TopicReplaced
    <3>3. CASE k = l
      BY <1>2, <3>1, <3>2, <3>3, ThreadGrows
    <3>4. CASE k # l
      <4>1. topics'[k] = topics[k]
        BY <3>2, <3>4
      <4>2. Thread(k)' = Thread(k)
        BY <3>1, <3>4, PostAppended DEF Thread
      <4> QED BY <1>1, <1>2, <3>2, <4>1, <4>2, ThreadStays
    <3> QED BY <3>3, <3>4
  <2> QED BY <2>1, <2>2, <2>3, <2>4, <2>5, RowMoves
<1> QED BY <1>3 DEF ThreadAt, Thread, ThreadIsConsistent, ActivityIsLatest

-----------------------------------------------------------------------------
(* Locks. *)

\* Ending calls take no lock.
LEMMA ExcludeWhenEnding ==
    ASSUME References, LocksExclude, RowsKeep,
           \A s \in Slots : task'[s] = task[s] \/ task'[s] = Free
    PROVE  LocksExclude'
<1>1. ASSUME NEW s \in Slots
      PROVE  /\ HoldsActor(s)' => HoldsActor(s) /\ task'[s] = task[s]
             /\ HoldsPost(s)' => HoldsPost(s) /\ task'[s] = task[s]
             /\ Replying(s)' => Replying(s) /\ task'[s] = task[s]
  BY DEF HoldsActor, HoldsPost, Replying, Free
<1>2. ASSUME NEW s \in Slots, Replying(s)
      PROVE  posts'[task[s].post].topic = posts[task[s].post].topic
  BY <1>2 DEF Replying, References, PostKinds, RowsKeep, SameRow
<1>3. ASSUME NEW s \in Slots, NEW t \in Slots, s # t
      PROVE  /\ HoldsActor(s)' /\ HoldsActor(t)' => task'[s].user # task'[t].user
             /\ HoldsPost(s)' /\ (HoldsPost(t)' \/ Replying(t)') => task'[s].post # task'[t].post
  BY <1>1, <1>3 DEF LocksExclude
<1>4. ASSUME NEW s \in Slots, NEW t \in Slots, s # t, Replying(s)', Replying(t)'
      PROVE  posts'[task'[s].post].topic # posts'[task'[t].post].topic
  BY <1>1, <1>2, <1>4 DEF LocksExclude
<1> QED BY <1>3, <1>4 DEF LocksExclude

LEMMA UsersLocked ==
    ASSUME TypeOK, NEW u, NEW s \in Slots, HoldsActor(s), ~UserLocked(u)
    PROVE  task[s].user # u
<1>1. task[s] # Free
  BY DEF HoldsActor, Free
<1> QED BY <1>1 DEF UserLocked, HoldsActor

LEMMA PostsLocked ==
    ASSUME TypeOK, NEW p, NEW s \in Slots, HoldsPost(s), ~PostLocked(p)
    PROVE  task[s].post # p
<1>1. task[s] # Free
  BY DEF HoldsPost, Free
<1> QED BY <1>1 DEF PostLocked, HoldsPost

LEMMA TopicsLocked ==
    ASSUME TypeOK, NEW k, NEW s \in Slots, Replying(s), ~TopicLocked(k)
    PROVE  posts[task[s].post].topic # k
  BY TopicOfPost DEF TopicLocked, Replying, PostKinds

LEMMA ExcludeStep ==
    ASSUME TypeOK, References, LocksExclude, Shape
    PROVE  LocksExclude'
<1>1. RowsKeep
  BY ShapeKeepsRows
<1>2. CASE \A s \in Slots : task'[s] = task[s] \/ task'[s] = Free
  BY <1>1, <1>2, ExcludeWhenEnding
<1>3. ASSUME NEW t \in Slots, NEW x \in Calls, Begins(t, x) \/ Advances(t, x)
      PROVE  /\ UNCHANGED <<topics, posts>> /\ task'[t] = x
             /\ \A s \in Slots \ {t} : task'[s] = task[s]
  <2>1. UNCHANGED <<topics, posts>> /\ task' = [task EXCEPT ![t] = x]
    BY <1>3 DEF Begins, Advances
  <2> QED BY <2>1, TaskSet
<1>4. ASSUME NEW t \in Slots, NEW x \in Calls, Begins(t, x)
      PROVE  LocksExclude'
  <2>1. task'[t] = x /\ x.step = "begin" /\ UNCHANGED posts /\ \A s \in Slots \ {t} : task'[s] = task[s]
    BY <1>3, <1>4 DEF Begins
  <2>2. ~HoldsActor(t)' /\ ~HoldsPost(t)' /\ ~Replying(t)'
    BY <2>1 DEF HoldsActor, HoldsPost, Replying
  <2> QED BY <2>1, <2>2 DEF LocksExclude, HoldsActor, HoldsPost, Replying
<1>5. ASSUME NEW t \in Slots, NEW x \in Calls, TakesActor(t, x)
      PROVE  LocksExclude'
  <2>1. /\ task'[t] = x /\ x.step = "actor" /\ UNCHANGED posts /\ x.user = task[t].user
        /\ \A s \in Slots \ {t} : task'[s] = task[s]
    BY <1>3, <1>5 DEF TakesActor, Advances
  <2>2. ~HoldsPost(t)' /\ ~Replying(t)'
    BY <2>1 DEF HoldsPost, Replying
  <2>3. \A s \in Slots \ {t} : HoldsActor(s) => task[s].user # x.user
    BY <1>5, <2>1, UsersLocked DEF TakesActor
  <2> QED BY <2>1, <2>2, <2>3 DEF LocksExclude, HoldsActor, HoldsPost, Replying
<1>6. ASSUME NEW t \in Slots, NEW x \in Calls, TakesTarget(t, x)
      PROVE  LocksExclude'
  <2> DEFINE p == task[t].post
  <2>1. /\ task'[t] = x /\ x.step = "target" /\ UNCHANGED posts /\ x.user = task[t].user /\ x.post = p
        /\ \A s \in Slots \ {t} : task'[s] = task[s]
    BY <1>3, <1>6 DEF TakesTarget, Advances, PostKinds
  <2>2. ~HoldsPost(t)' /\ HoldsActor(t)
    BY <1>6, <2>1 DEF HoldsPost, HoldsActor, TakesTarget, Advances
  <2>3. ~TopicLocked(posts[p].topic) /\ ~PostLocked(p)
    BY <1>6 DEF TakesTarget
  <2>4. \A s \in Slots \ {t} : Replying(s) => posts[task[s].post].topic # posts[p].topic
    BY <2>3, TopicsLocked
  <2>5. \A s \in Slots \ {t} : HoldsPost(s) => task[s].post # p
    BY <2>3, PostsLocked
  <2> HIDE DEF p
  <2> QED BY <2>1, <2>2, <2>4, <2>5 DEF LocksExclude, HoldsActor, HoldsPost, Replying
<1>7. ASSUME NEW t \in Slots, NEW x \in Calls, TakesPost(t, x)
      PROVE  LocksExclude'
  <2> DEFINE p == task[t].post
  <2>1. /\ task'[t] = x /\ x.step = "post" /\ UNCHANGED posts /\ x.post = p
        /\ \A s \in Slots \ {t} : task'[s] = task[s]
    BY <1>3, <1>7 DEF TakesPost, Advances, PostKinds
  <2>2. ~HoldsActor(t)' /\ ~Replying(t)'
    BY <2>1 DEF HoldsActor, Replying
  <2>3. ~PostLocked(p) /\ ~PostShared(p)
    BY <1>7 DEF TakesPost
  <2>4. \A s \in Slots \ {t} : HoldsPost(s) => task[s].post # p
    BY <2>3, PostsLocked
  <2>5. \A s \in Slots \ {t} : Replying(s) => task[s].post # p
    BY <2>3 DEF PostShared
  <2> HIDE DEF p
  <2> QED BY <2>1, <2>2, <2>4, <2>5 DEF LocksExclude, HoldsActor, HoldsPost, Replying
<1>8. \/ \A s \in Slots : task'[s] = task[s] \/ task'[s] = Free
      \/ \E t \in Slots, x \in Calls :
           Begins(t, x) \/ TakesActor(t, x) \/ TakesTarget(t, x) \/ TakesPost(t, x)
  BY CallMoves
<1> QED BY <1>2, <1>4, <1>5, <1>6, <1>7, <1>8

\* What one call that holds locks relies on.
HoldAt(t) ==
    /\ HoldsActor(t) =>
         /\ ~account[task[t].user].barred /\ account[task[t].user].staff = task[t].staff
         /\ task[t].kind \in Publications => task[t].window = window[task[t].user]
    /\ Replying(t) =>
         /\ ~posts[task[t].post].deleted /\ posts[task[t].post].depth < MaximumReplyDepth
         /\ CanReply(task[t].staff, posts[task[t].post].topic)
    /\ HoldsPost(t) => ~posts[task[t].post].deleted

\* A call finds its rows free to go on when it locks them.
LEMMA HoldFound ==
    ASSUME TypeOK, LocksHold, NEW t \in Slots, NEW x \in Calls, task'[t] = x,
           Begins(t, x) \/ TakesActor(t, x) \/ TakesTarget(t, x) \/ TakesPost(t, x)
    PROVE  HoldAt(t)'
<1>1. CASE Begins(t, x)
  <2>1. ~HoldsActor(t)' /\ ~Replying(t)' /\ ~HoldsPost(t)'
    BY <1>1 DEF Begins, HoldsActor, Replying, HoldsPost
  <2> QED BY <2>1 DEF HoldAt
<1>2. CASE TakesActor(t, x)
  <2>1. UNCHANGED <<account, window>> /\ x.user = task[t].user /\ x.staff = task[t].staff
    BY <1>2 DEF TakesActor, Advances
  <2>2. ~Replying(t)' /\ ~HoldsPost(t)'
    BY <1>2 DEF TakesActor, Replying, HoldsPost
  <2> QED BY <1>2, <2>1, <2>2 DEF HoldAt, TakesActor
<1>3. CASE TakesTarget(t, x)
  <2> DEFINE p == task[t].post
  <2>1. /\ UNCHANGED <<account, window, posts, topics, mode>>
        /\ x.user = task[t].user /\ x.staff = task[t].staff
        /\ x.post = p /\ x.kind = "reply" /\ x.kind = task[t].kind /\ x.window = task[t].window
    BY <1>3 DEF TakesTarget, Advances, PostKinds
  <2>2. HoldsActor(t) /\ ~HoldsPost(t)'
    BY <1>3, <2>1 DEF TakesTarget, HoldsActor, HoldsPost
  <2>3. /\ ~account[x.user].barred /\ account[x.user].staff = x.staff /\ x.window = window[x.user]
    BY <2>1, <2>2 DEF LocksHold, Publications
  <2>4. ~posts[p].deleted /\ posts[p].depth < MaximumReplyDepth /\ CanReply(x.staff, posts[p].topic)
    BY <1>3, <2>1 DEF TakesTarget
  <2>5. CanReply(x.staff, posts[p].topic)'
    BY <2>1, <2>4 DEF CanReply, CanCreateTopic
  <2> QED BY <2>1, <2>2, <2>3, <2>4, <2>5 DEF HoldAt
<1>4. CASE TakesPost(t, x)
  <2>1. /\ UNCHANGED posts /\ x.post = task[t].post /\ ~posts[task[t].post].deleted
    BY <1>4 DEF TakesPost, Advances, PostKinds
  <2>2. ~HoldsActor(t)' /\ ~Replying(t)'
    BY <1>4 DEF TakesPost, HoldsActor, Replying
  <2> QED BY <2>1, <2>2 DEF HoldAt
<1> QED BY <1>1, <1>2, <1>3, <1>4

\* And nobody else takes them away: neither from around the discussion ...
LEMMA HoldUndisturbed ==
    ASSUME TypeOK, References, LocksHold, NEW t \in Slots, UNCHANGED task, Around
    PROVE  HoldAt(t)'
<1>1. UNCHANGED <<window, topics, posts>>
  BY DEF Around
<1>2. ASSUME HoldsActor(t)
      PROVE  account'[task[t].user] = account[task[t].user]
  <2>1. task[t] # Free /\ ~account[task[t].user].barred
    BY <1>2 DEF HoldsActor, Free, LocksHold
  <2>2. task[t].user \in Users
    BY <2>1, SlotUser
  <2>3. \A u \in Users : ~UserLocked(u) \/ account[u].barred => u # task[t].user
    BY <1>2, <2>1 DEF UserLocked, HoldsActor
  <2> QED BY <2>2, <2>3 DEF Around
<1>3. ASSUME Replying(t)
      PROVE  mode'[topics[posts[task[t].post].topic].area] = mode[topics[posts[task[t].post].topic].area]
  <2> DEFINE k == posts[task[t].post].topic
  <2>1. task[t].kind \in PostKinds
    BY <1>3 DEF Replying, PostKinds
  <2>2. k \in DOMAIN topics /\ TopicOf(t) = k
    BY <2>1, TopicOfPost DEF References
  <2>3. topics[k].area \in Areas
    BY <2>2, TopicRow DEF TopicRows
  <2>4. AreaShared(topics[k].area)
    BY <1>3, <2>2 DEF AreaShared
  <2> HIDE DEF k
  <2> QED BY <2>3, <2>4 DEF Around, k
<1>4. ASSUME Replying(t), CanReply(task[t].staff, posts[task[t].post].topic)
      PROVE  CanReply(task[t].staff, posts[task[t].post].topic)'
  BY <1>1, <1>3, <1>4 DEF CanReply, CanCreateTopic
<1>5. HoldAt(t)
  BY DEF LocksHold, HoldAt
<1>6. (HoldsActor(t)' <=> HoldsActor(t)) /\ (Replying(t)' <=> Replying(t)) /\ (HoldsPost(t)' <=> HoldsPost(t))
  BY DEF HoldsActor, Replying, HoldsPost
<1> QED BY <1>1, <1>2, <1>4, <1>5, <1>6 DEF HoldAt

\* ... nor by another call.
LEMMA HoldKept ==
    ASSUME TypeOK, References, LocksHold, NEW t \in Slots, task'[t] = task[t],
           HoldsActor(t) => /\ account'[task[t].user] = account[task[t].user]
                            /\ window'[task[t].user] = window[task[t].user],
           Replying(t) \/ HoldsPost(t) => posts'[task[t].post] = posts[task[t].post],
           LET k == posts[task[t].post].topic IN
             Replying(t) => topics'[k].area = topics[k].area /\ topics'[k].state = topics[k].state,
           UNCHANGED mode
    PROVE  HoldAt(t)'
<1>1. HoldAt(t)
  BY DEF LocksHold, HoldAt
<1>2. (HoldsActor(t)' <=> HoldsActor(t)) /\ (Replying(t)' <=> Replying(t)) /\ (HoldsPost(t)' <=> HoldsPost(t))
  BY DEF HoldsActor, Replying, HoldsPost
<1>3. ASSUME Replying(t), CanReply(task[t].staff, posts[task[t].post].topic)
      PROVE  CanReply(task[t].staff, posts[task[t].post].topic)'
  BY <1>3 DEF CanReply, CanCreateTopic
<1> QED BY <1>1, <1>2, <1>3 DEF HoldAt

LEMMA HoldStep ==
    ASSUME TypeOK, References, LocksExclude, LocksHold, Shape
    PROVE  LocksHold'
<1>1. ASSUME NEW t \in Slots, task'[t] = task[t]
      PROVE  HoldAt(t)'
  <2> DEFINE p == task[t].post
             k == posts[p].topic
  <2>0. /\ HoldsActor(t) => task[t] # Free
        /\ Replying(t) => p \in DOMAIN posts /\ k \in DOMAIN topics /\ TopicOf(t) = k /\ HoldsActor(t)
        /\ HoldsPost(t) => p \in DOMAIN posts /\ task[t] # Free
    BY TopicOfPost DEF HoldsActor, HoldsPost, Replying, Free, References, PostKinds
  <2>1. CASE UNCHANGED <<people, mode, topics, posts>>
    BY <1>1, <2>1, HoldKept
  <2>2. CASE Around
    BY <2>2, HoldUndisturbed DEF Around
  <2>3. ASSUME NEW s \in Slots, NEW q \in DOMAIN posts, NEW x \in PostRows, PostChanges(s, q, x)
        PROVE  HoldAt(t)'
    <3>1. /\ posts' = [posts EXCEPT ![q] = x] /\ task' = [task EXCEPT ![s] = Free] /\ q = task[s].post
          /\ UNCHANGED <<people, mode, topics>> /\ (HoldsPost(s) \/ (~PostLocked(q) /\ ~PostShared(q)))
      BY <2>3 DEF PostChanges, LockPostForModeration
    <3>2. ASSUME Replying(t) \/ HoldsPost(t)
          PROVE  p # q
      <4>1. s # t
        <5>1. task'[s] = Free
          BY <3>1, TaskSet
        <5> QED BY <1>1, <3>2, <5>1 DEF Replying, HoldsPost, Free
      <4>2. CASE HoldsPost(s)
        BY <3>1, <3>2, <4>1, <4>2 DEF LocksExclude
      <4>3. CASE ~PostLocked(q) /\ ~PostShared(q)
        BY <3>2, <4>3, PostsLocked DEF PostShared
      <4> QED BY <3>1, <4>2, <4>3
    <3>3. Replying(t) \/ HoldsPost(t) => posts'[p] = posts[p]
      BY <2>0, <3>1, <3>2, PostReplaced
    <3> QED BY <1>1, <3>1, <3>3, HoldKept
  <2>4. ASSUME NEW s \in Slots, NEW l \in DOMAIN topics, NEW y \in TopicRows, TopicChanges(s, l, y)
        PROVE  HoldAt(t)'
    <3>1. /\ topics' = [topics EXCEPT ![l] = y] /\ ~TopicLocked(l)
          /\ UNCHANGED <<people, mode, posts>>
      BY <2>4 DEF TopicChanges
    <3>2. Replying(t) => topics'[k] = topics[k]
      BY <2>0, <3>1, TopicReplaced, TopicsLocked
    <3> HIDE DEF p
    <3> QED BY <1>1, <3>1, <3>2, HoldKept DEF p
  <2>5. ASSUME NEW s \in Slots, NEW w \in Windows, NEW x \in PostRows, NEW y \in TopicRows,
               OpensTopic(s, w, x, y) \/ AddsReply(s, w, x, y)
        PROVE  HoldAt(t)'
    <3>1. Charges(s, w, x)
      BY <2>5 DEF OpensTopic, AddsReply
    <3>2. /\ HoldsActor(s) /\ window' = [window EXCEPT ![task[s].user] = w] /\ UNCHANGED <<account, mode>>
          /\ posts' = Append(posts, x) /\ task' = [task EXCEPT ![s] = Free]
      BY <3>1 DEF Charges
    <3>3. ASSUME HoldsActor(t)
          PROVE  window'[task[t].user] = window[task[t].user]
      <4>1. task'[s] = Free
        BY <3>2, TaskSet
      <4>2. s # t
        BY <1>1, <3>3, <4>1 DEF HoldsActor, Free
      <4>3. task[s].user # task[t].user
        BY <3>2, <3>3, <4>2 DEF LocksExclude
      <4>4. task[t].user \in Users
        BY <2>0, <3>3, SlotUser
      <4> QED BY <3>2, <4>3, <4>4 DEF TypeOK
    <3>4. Replying(t) \/ HoldsPost(t) => posts'[p] = posts[p]
      BY <2>0, <3>2, PostAppended
    <3>5. ASSUME Replying(t)
          PROVE  topics'[k].area = topics[k].area /\ topics'[k].state = topics[k].state
      <4>1. CASE OpensTopic(s, w, x, y)
        BY <2>0, <3>5, <4>1, TopicAppended DEF OpensTopic
      <4>2. CASE AddsReply(s, w, x, y)
        <5> DEFINE l == posts[task[s].post].topic
        <5>1. /\ topics' = [topics EXCEPT ![l] = y] /\ l \in DOMAIN topics
              /\ y.area = topics[l].area /\ y.state = topics[l].state
          BY <4>2 DEF AddsReply
        <5> HIDE DEF l
        <5> QED BY <2>0, <3>5, <5>1, TopicReplaced
      <4> QED BY <2>5, <4>1, <4>2
    <3> QED BY <1>1, <3>2, <3>3, <3>4, <3>5, HoldKept
  <2>6. UNCHANGED vars \/ (\E s \in Slots : Rollback(s)) \/
        (\E s \in Slots, x \in Calls :
           Begins(s, x) \/ TakesActor(s, x) \/ TakesTarget(s, x) \/ TakesPost(s, x))
          => UNCHANGED <<people, mode, topics, posts>>
    BY DEF vars, Rollback, Begins, TakesActor, TakesTarget, TakesPost, Advances
  <2> QED BY <2>1, <2>2, <2>3, <2>4, <2>5, <2>6 DEF Shape
<1>2. ASSUME NEW t \in Slots, task'[t] = Free
      PROVE  HoldAt(t)'
  BY <1>2 DEF HoldAt, HoldsActor, Replying, HoldsPost, Free
<1>3. \A t \in Slots : HoldAt(t)'
  BY <1>1, <1>2, CallMoves, HoldFound
<1> QED BY <1>3 DEF LocksHold, HoldAt, HoldsActor, HoldsPost, Replying, CanReply, CanCreateTopic

-----------------------------------------------------------------------------
(* Windows. *)

LEMMA MineIsFinite ==
    ASSUME TypeOK, NEW u, NEW c
    PROVE  IsFiniteSet(Charged(u, c)) /\ Cardinality(Charged(u, c)) \in Nat
<1>1. Len(posts) \in Nat /\ DOMAIN posts = 1..Len(posts)
  BY DEF TypeOK
<1>2. IsFiniteSet(1..Len(posts))
  <2>1. 1 \in Int /\ Len(posts) \in Int
    BY <1>1
  <2> QED BY <2>1, FS_Interval
<1>3. Charged(u, c) \in SUBSET (1..Len(posts))
  BY <1>1 DEF Charged, Mine
<1>4. IsFiniteSet(Charged(u, c))
  BY <1>2, <1>3, FS_Subset
<1> QED BY <1>4, FS_CardinalityType

\* What WindowLimit says of the posts of one account.
LimitAt(u) ==
    \A p \in Mine(u) :
      /\ Cardinality(Charged(u, posts[p].charged)) <= PublicationLimit
      /\ \A q \in Mine(u) : posts[q].charged > posts[p].charged =>
           posts[q].charged >= posts[p].charged + PublicationWindow

AgreeAt(u) ==
    /\ window[u].count = 0 => Mine(u) = {}
    /\ Cardinality(Charged(u, window[u].start)) <= window[u].count
    /\ \A q \in Mine(u) : \/ posts[q].charged = window[u].start
                          \/ posts[q].charged + PublicationWindow <= window[u].start

LEMMA LimitIsAt ==
    ASSUME TypeOK
    PROVE  WindowLimit <=> \A u \in Users : LimitAt(u)
<1>1. \A p \in DOMAIN posts : posts[p].author \in Users
  BY PostRow DEF PostRows
<1>2. ASSUME NEW p \in DOMAIN posts
      PROVE  {q \in {r \in DOMAIN posts : posts[r].author = posts[p].author} :
                posts[q].charged = posts[p].charged} = Charged(posts[p].author, posts[p].charged)
  BY DEF Charged, Mine
<1> QED BY <1>1, <1>2 DEF WindowLimit, LimitAt, Mine

\* An account that publishes nothing.
LEMMA WindowStays ==
    ASSUME NEW u, LimitAt(u), AgreeAt(u), window'[u] = window[u], Mine(u)' = Mine(u), RowsKeep
    PROVE  LimitAt(u)' /\ AgreeAt(u)'
<1>1. \A q \in Mine(u) : posts'[q].charged = posts[q].charged
  BY DEF Mine, RowsKeep, SameRow
<1>2. \A c : Charged(u, c)' = Charged(u, c)
  BY <1>1 DEF Charged
<1>3. AgreeAt(u)'
  BY <1>1, <1>2 DEF AgreeAt
<1>4. LimitAt(u)'
  BY <1>1, <1>2 DEF LimitAt
<1> QED BY <1>3, <1>4

\* An account that publishes.
LEMMA WindowCharged ==
    ASSUME TypeOK, NEW u \in Users, LimitAt(u), AgreeAt(u), NEW x \in PostRows,
           NEW w \in DecidePublication(window[u]), window'[u] = w, posts' = Append(posts, x),
           x.author = u, x.charged = w.start
    PROVE  LimitAt(u)' /\ AgreeAt(u)'
<1> USE PolicyAssumption, BoundsAssumption
<1> DEFINE n == Len(posts) + 1
           v == window[u]
<1>1. /\ v \in Windows /\ v.start \in 0..MaxTime /\ v.count \in 0..PublicationLimit
  BY DEF TypeOK, Windows
<1>2. /\ w \in Windows /\ w.count > 0
      /\ \/ w.start = now /\ w.count = 1 /\ (v.count = 0 \/ v.start + PublicationWindow <= now)
         \/ w.start = v.start /\ w.count = v.count + 1
  BY <1>1, WindowsAdmitted
<1>3. w.start \in 0..MaxTime /\ w.count \in 1..PublicationLimit /\ now \in 0..MaxTime
  BY <1>2 DEF Windows, TypeOK
<1>4. /\ n \notin DOMAIN posts /\ DOMAIN posts' = DOMAIN posts \cup {n} /\ posts'[n] = x
      /\ \A q \in DOMAIN posts : posts'[q] = posts[q]
  BY PostAppended
<1>5. Mine(u)' = Mine(u) \cup {n} /\ n \notin Mine(u) /\ \A q \in Mine(u) : posts'[q] = posts[q] /\ q # n
  BY <1>4 DEF Mine
<1>6. ASSUME NEW c
      PROVE  Charged(u, c)' = IF c = w.start THEN Charged(u, c) \cup {n} ELSE Charged(u, c)
  BY <1>4, <1>5 DEF Charged
<1>7. \A q \in Mine(u) : posts[q].charged \in 0..MaxTime
  BY PostRow DEF Mine, PostRows
<1>8. n \notin Charged(u, w.start)
  BY <1>5 DEF Charged
<1>9. Cardinality(Charged(u, w.start)') = Cardinality(Charged(u, w.start)) + 1
  <2>1. Charged(u, w.start)' = Charged(u, w.start) \cup {n}
    BY <1>6
  <2>2. IsFiniteSet(Charged(u, w.start))
    BY MineIsFinite
  <2>3. Cardinality(Charged(u, w.start) \cup {n}) = Cardinality(Charged(u, w.start)) + 1
    BY <1>8, <2>2, FS_AddElement
  <2> QED BY <2>1, <2>3
<1>10. /\ Cardinality(Charged(u, w.start)) + 1 <= w.count
       /\ \A q \in Mine(u) : \/ posts[q].charged = w.start
                             \/ posts[q].charged + PublicationWindow <= w.start
  <2>1. CASE w.start = v.start /\ w.count = v.count + 1
    <3>1. Cardinality(Charged(u, v.start)) <= v.count
      BY DEF AgreeAt
    <3>2. Cardinality(Charged(u, v.start)) \in Nat
      BY MineIsFinite
    <3>3. Cardinality(Charged(u, w.start)) + 1 <= w.count
      BY <1>1, <2>1, <3>1, <3>2
    <3> QED BY <2>1, <3>3 DEF AgreeAt
  <2>2. CASE w.start = now /\ w.count = 1 /\ (v.count = 0 \/ v.start + PublicationWindow <= now)
    <3>1. \A q \in Mine(u) : posts[q].charged + PublicationWindow <= now /\ posts[q].charged # now
      <4> TAKE q \in Mine(u)
      <4>1. v.count # 0
        BY DEF AgreeAt
      <4>2. posts[q].charged = v.start \/ posts[q].charged + PublicationWindow <= v.start
        BY DEF AgreeAt
      <4> DEFINE c == posts[q].charged
                 b == v.start
      <4>3. c \in 0..MaxTime /\ b \in 0..MaxTime /\ b + PublicationWindow <= now
            /\ (c = b \/ c + PublicationWindow <= b)
        BY <1>1, <1>7, <2>2, <4>1, <4>2
      <4> HIDE DEF c, b
      <4>4. c + PublicationWindow <= now /\ c # now
        BY <1>3, <4>3
      <4> QED BY <4>4 DEF c
    <3>2. Charged(u, w.start) = {}
      BY <2>2, <3>1 DEF Charged
    <3>3. Cardinality(Charged(u, w.start)) = 0
      BY <3>2, FS_EmptySet
    <3> QED BY <2>2, <3>1, <3>3
  <2> QED BY <1>2, <2>1, <2>2
<1>11. AgreeAt(u)'
  <2>1. window'[u].count # 0
    BY <1>3
  <2>2. Cardinality(Charged(u, w.start)') <= w.count
    BY <1>9, <1>10
  <2>3. \A q \in Mine(u)' : \/ posts'[q].charged = w.start
                            \/ posts'[q].charged + PublicationWindow <= w.start
    BY <1>4, <1>5, <1>10
  <2>4. Cardinality({q \in Mine(u)' : posts'[q].charged = window'[u].start}) <= window'[u].count
    BY <2>2 DEF Charged
  <2> QED BY <2>1, <2>3, <2>4 DEF AgreeAt, Charged
<1>12. ASSUME NEW p \in Mine(u)', NEW c, c = posts'[p].charged
       PROVE  /\ Cardinality(Charged(u, c)') <= PublicationLimit
              /\ \A q \in Mine(u)' : posts'[q].charged > c => posts'[q].charged >= c + PublicationWindow
  <2>1. CASE c = w.start
    <3>1. Cardinality(Charged(u, w.start)') <= PublicationLimit
      <4>1. Cardinality(Charged(u, w.start)) \in Nat
        BY MineIsFinite
      <4> QED BY <1>3, <1>9, <1>10, <4>1
    <3>2. \A q \in Mine(u) : ~(posts[q].charged > w.start)
      <4> TAKE q \in Mine(u)
      <4>1. posts[q].charged \in 0..MaxTime
        BY <1>7
      <4>2. posts[q].charged = w.start \/ posts[q].charged + PublicationWindow <= w.start
        BY <1>10
      <4> QED BY <1>3, <4>1, <4>2
    <3>3. ~(x.charged > w.start)
      BY <1>3
    <3> QED BY <1>4, <1>5, <2>1, <3>1, <3>2, <3>3
  <2>2. CASE c # w.start
    <3>1. p \in Mine(u) /\ posts[p].charged = c
      BY <1>4, <1>5, <1>12, <2>2
    <3>2. Charged(u, c)' = Charged(u, c)
      BY <1>6, <2>2
    <3>3. Cardinality(Charged(u, c)') <= PublicationLimit
      BY <3>1, <3>2 DEF LimitAt
    <3>4. \A q \in Mine(u) : posts[q].charged > c => posts[q].charged >= c + PublicationWindow
      BY <3>1 DEF LimitAt
    <3>5. w.start > c => w.start >= c + PublicationWindow
      <4>1. c + PublicationWindow <= w.start
        BY <1>10, <2>2, <3>1
      <4>2. c \in 0..MaxTime
        BY <1>7, <3>1
      <4> QED BY <1>3, <4>1, <4>2
    <3> QED BY <1>4, <1>5, <3>3, <3>4, <3>5
  <2> QED BY <2>1, <2>2
<1>13. LimitAt(u)'
  BY <1>12 DEF LimitAt, Charged, Mine
<1> QED BY <1>11, <1>13

LEMMA WindowStep ==
    ASSUME TypeOK, LocksHold, WindowsAgree, WindowLimit, Shape, TypeOK'
    PROVE  WindowsAgree' /\ WindowLimit'
<1>1. RowsKeep
  BY ShapeKeepsRows
<1>2. \A u \in Users : LimitAt(u) /\ AgreeAt(u)
  BY LimitIsAt DEF WindowsAgree, AgreeAt
<1>3. ASSUME NEW u \in Users
      PROVE  LimitAt(u)' /\ AgreeAt(u)'
  <2>1. CASE window'[u] = window[u] /\ DOMAIN posts' = DOMAIN posts
    <3>1. Mine(u)' = Mine(u)
      BY <1>1, <2>1 DEF Mine, RowsKeep, SameRow
    <3> QED BY <1>1, <1>2, <2>1, <3>1, WindowStays
  <2>2. ASSUME NEW t \in Slots, NEW w \in Windows, NEW x \in PostRows, Charges(t, w, x)
        PROVE  LimitAt(u)' /\ AgreeAt(u)'
    <3>1. /\ HoldsActor(t) /\ task[t].kind \in Publications /\ w \in DecidePublication(task[t].window)
          /\ window' = [window EXCEPT ![task[t].user] = w] /\ posts' = Append(posts, x)
          /\ x.author = task[t].user /\ x.charged = w.start
      BY <2>2 DEF Charges
    <3>2. CASE u = task[t].user
      <4>1. task[t].window = window[u]
        BY <3>1, <3>2 DEF LocksHold
      <4>2. window'[u] = w
        BY <3>1, <3>2 DEF TypeOK
      <4> QED BY <1>2, <3>1, <3>2, <4>1, <4>2, WindowCharged
    <3>3. CASE u # task[t].user
      <4>1. window'[u] = window[u]
        BY <3>1, <3>3 DEF TypeOK
      <4>2. Mine(u)' = Mine(u)
        BY <3>1, <3>3, PostAppended DEF Mine
      <4> QED BY <1>1, <1>2, <4>1, <4>2, WindowStays
    <3> QED BY <3>2, <3>3
  <2>3. ASSUME NEW t \in Slots, NEW p \in DOMAIN posts, NEW x \in PostRows, PostChanges(t, p, x)
        PROVE  window' = window /\ DOMAIN posts' = DOMAIN posts
    BY <2>3, PostReplaced DEF PostChanges
  <2>4. UNCHANGED <<window, posts>> => window'[u] = window[u] /\ DOMAIN posts' = DOMAIN posts
    OBVIOUS
  <2>5. \/ UNCHANGED <<window, posts>>
        \/ \E t \in Slots, p \in DOMAIN posts, x \in PostRows : PostChanges(t, p, x)
        \/ \E t \in Slots, w \in Windows, x \in PostRows : Charges(t, w, x)
    <3>1. UNCHANGED vars \/ Around \/ (\E t \in Slots : Rollback(t)) \/
          (\E t \in Slots, x \in Calls :
             Begins(t, x) \/ TakesActor(t, x) \/ TakesTarget(t, x) \/ TakesPost(t, x))
            => UNCHANGED <<window, posts>>
      BY DEF vars, Around, Rollback, Begins, TakesActor, TakesTarget, TakesPost, Advances
    <3>2. (\E t \in Slots, k \in DOMAIN topics, x \in TopicRows : TopicChanges(t, k, x))
            => UNCHANGED <<window, posts>>
      BY DEF TopicChanges
    <3>3. (\E t \in Slots, w \in Windows, x \in PostRows, y \in TopicRows :
             OpensTopic(t, w, x, y) \/ AddsReply(t, w, x, y))
            => \E t \in Slots, w \in Windows, x \in PostRows : Charges(t, w, x)
      BY DEF OpensTopic, AddsReply
    <3> QED BY <3>1, <3>2, <3>3 DEF Shape
  <2> QED BY <2>1, <2>2, <2>3, <2>4, <2>5
<1>4. ASSUME NEW p \in DOMAIN posts', NEW u \in Users, u = posts'[p].author, NEW c, c = posts'[p].charged
      PROVE  LET mine == {q \in DOMAIN posts' : posts'[q].author = u} IN
             /\ Cardinality({q \in mine : posts'[q].charged = c}) <= PublicationLimit
             /\ \A q \in mine : posts'[q].charged > c => posts'[q].charged >= c + PublicationWindow
  <2>1. LimitAt(u)' /\ p \in Mine(u)'
    BY <1>3, <1>4 DEF Mine
  <2> QED BY <1>4, <2>1 DEF LimitAt, Charged, Mine
<1>5. \A p \in DOMAIN posts' : posts'[p].author \in Users
  <2>1. posts' \in Seq(PostRows)
    BY DEF TypeOK
  <2>2. \A p \in DOMAIN posts' : posts'[p] \in PostRows
    BY <2>1
  <2> QED BY <2>2 DEF PostRows
<1>6. WindowLimit'
  BY <1>4, <1>5 DEF WindowLimit
<1>7. WindowsAgree'
  BY <1>3 DEF WindowsAgree, AgreeAt, Charged, Mine
<1> QED BY <1>6, <1>7

-----------------------------------------------------------------------------
(* The theorems. *)

LEMMA Initially == Init => IInv
<1> SUFFICES ASSUME Init PROVE IInv
  OBVIOUS
<1> USE PolicyAssumption, BoundsAssumption
<1>1. /\ now = 0 /\ topics = <<>> /\ posts = <<>> /\ \A t \in Slots : task[t] = Free
      /\ \A u \in Users : window[u] = [start |-> 0, count |-> 0]
  BY DEF Init
<1>2. DOMAIN topics = {} /\ DOMAIN posts = {}
  BY <1>1
<1>3. TypeOK
  <2>1. 0 \in 0..MaxTime /\ 0 \in 0..PublicationLimit
    OBVIOUS
  <2>2. window \in [Users -> Windows] /\ now \in 0..MaxTime
    BY <2>1 DEF Init, Windows
  <2>3. account \in [Users -> [staff : BOOLEAN, barred : BOOLEAN]] /\ mode \in [Areas -> Modes]
    BY DEF Init, Modes
  <2>4. /\ topics \in Seq(TopicRows) /\ Len(topics) <= MaxTopics
        /\ posts \in Seq(PostRows) /\ Len(posts) <= MaxPosts
    BY <1>1
  <2>5. task \in [Slots -> {Free} \cup Calls]
    BY DEF Init
  <2> QED BY <2>2, <2>3, <2>4, <2>5 DEF TypeOK
<1>4. \A t \in Slots : task[t].kind = "free"
  BY <1>1 DEF Free
<1>5. References /\ TextIsRevision /\ ThreadIsConsistent /\ ActivityIsLatest /\ WindowLimit
  BY <1>2, <1>4 DEF References, TextIsRevision, ThreadIsConsistent, ActivityIsLatest, WindowLimit,
                    PostKinds, TopicKinds, PostActions, TopicActions, Pinning
<1>6. LocksExclude /\ LocksHold
  BY <1>4 DEF LocksExclude, LocksHold, HoldsActor, HoldsPost, Replying
<1>7. WindowsAgree
  <2>1. \A u : Mine(u) = {} /\ \A c : Charged(u, c) = {}
    BY <1>2 DEF Mine, Charged
  <2>2. Cardinality({}) = 0
    BY FS_EmptySet
  <2>3. ASSUME NEW u \in Users
        PROVE  Mine(u) = {} /\ Cardinality(Charged(u, window[u].start)) <= window[u].count
    <3>1. window[u].count = 0 /\ Charged(u, window[u].start) = {} /\ Mine(u) = {}
      BY <1>1, <2>1
    <3> QED BY <2>2, <3>1
  <2> QED BY <2>3 DEF WindowsAgree
<1> QED BY <1>3, <1>5, <1>6, <1>7 DEF IInv

LEMMA Stays == IInv /\ [Next]_vars => IInv'
<1> SUFFICES ASSUME IInv, [Next]_vars PROVE IInv'
  OBVIOUS
<1> USE DEF IInv
<1>1. Shape
  BY StepShape
<1>2. TypeOK'
  BY <1>1, TypeStep
<1>3. References' /\ TextIsRevision'
  BY <1>1, ReferencesStep, TextStep
<1>4. ThreadIsConsistent' /\ ActivityIsLatest'
  BY <1>1, ThreadStep
<1>5. LocksExclude' /\ LocksHold'
  BY <1>1, ExcludeStep, HoldStep
<1>6. WindowsAgree' /\ WindowLimit'
  BY <1>1, <1>2, WindowStep
<1> QED BY <1>2, <1>3, <1>4, <1>5, <1>6

LEMMA Invariantly == Spec => []IInv
<1> QED BY Initially, Stays, PTL DEF Spec

\* Rows and calls keep their types: no number, depth or revision leaves its
\* range, although nothing bounds the number of replies but the table.
THEOREM DiscussionTypes == Spec => []TypeOK
<1> QED BY Invariantly, PTL DEF IInv

\* Numbers, counters, latest posts and times of a thread agree, whatever runs
\* at once and whatever the clock does.
THEOREM ThreadIsConsistentAlways == Spec => []ThreadIsConsistent
<1> QED BY Invariantly, PTL DEF IInv

\* One publication window admits at most the limit, and windows do not overlap.
THEOREM WindowLimitAlways == Spec => []WindowLimit
<1> QED BY Invariantly, PTL DEF IInv

\* A call that commits is the one whose shape the step has.
LEMMA CommitShape ==
    ASSUME IInv, [Next]_vars, NEW t \in Slots, Commits(t)
    PROVE  \/ \E p \in DOMAIN posts, x \in PostRows : PostChanges(t, p, x)
           \/ \E k \in DOMAIN topics, x \in TopicRows : TopicChanges(t, k, x)
           \/ \E w \in Windows, x \in PostRows, y \in TopicRows :
                OpensTopic(t, w, x, y) \/ AddsReply(t, w, x, y)
<1>1. Shape /\ TypeOK
  BY StepShape DEF IInv
<1>2. task[t] # Free /\ task'[t] = Free /\ <<topics, posts>>' # <<topics, posts>>
  BY DEF Commits
<1>3. \A s \in Slots : task' = [task EXCEPT ![s] = Free] => s = t
  BY <1>1, <1>2, TaskSet
<1>4. ASSUME NEW s \in Slots
      PROVE  /\ \A p, x : PostChanges(s, p, x) => s = t
             /\ \A k, x : TopicChanges(s, k, x) => s = t
  BY <1>3 DEF PostChanges, TopicChanges
<1>5. ASSUME NEW s \in Slots
      PROVE  \A w, x, y : OpensTopic(s, w, x, y) \/ AddsReply(s, w, x, y) => s = t
  BY <1>3 DEF OpensTopic, AddsReply, Charges
<1> QED BY <1>1, <1>2, <1>4, <1>5, RowMoves

\* Whoever publishes or moderates is active when it commits, and in the role of
\* its session: its account's row was locked after the session had been read.
THEOREM AuthorityAtCommitAlways == Spec => AuthorityAtCommit
<1>1. ASSUME IInv, [Next]_vars, NEW t \in Slots, Commits(t), task[t].kind \notin {"edit", "delete"}
      PROVE  /\ ~account[task[t].user].barred /\ account[task[t].user].staff = task[t].staff
             /\ task[t].kind \in Moderation => account[task[t].user].staff
  <2>1. HoldsActor(t)
    BY <1>1, CommitShape DEF PostChanges, TopicChanges, OpensTopic, AddsReply, Charges, HoldsPost
  <2>2. ~account[task[t].user].barred /\ account[task[t].user].staff = task[t].staff
    BY <1>1, <2>1 DEF IInv, LocksHold
  <2>3. ASSUME task[t].kind \in Moderation
        PROVE  task[t].staff = TRUE
    <3>1. task[t].kind \in TopicActions \cup Pinning \/ task[t].kind = "move" \/ task[t].kind \in PostActions
      BY <2>3 DEF Moderation
    <3> QED BY <1>1, <3>1, SlotType DEF IInv
  <2> QED BY <2>2, <2>3
<1>2. IInv /\ [Next]_vars =>
        (\A t \in Slots : Commits(t) /\ task[t].kind \notin {"edit", "delete"} =>
           LET u == account[task[t].user] IN
           ~u.barred /\ u.staff = task[t].staff /\ (task[t].kind \in Moderation => u.staff))
  BY <1>1
<1> QED BY <1>2, Invariantly, PTL DEF Spec, AuthorityAtCommit

\* A reply is committed under a parent that is still there, to a topic and an
\* area that still take it.
THEOREM RepliesFindTheirPlaceAlways == Spec => RepliesFindTheirPlace
<1>1. ASSUME IInv, [Next]_vars, NEW t \in Slots, Commits(t), task[t].kind = "reply"
      PROVE  /\ ~posts[task[t].post].deleted
             /\ CanReply(account[task[t].user].staff, TopicOf(t))
  <2>1. Replying(t) /\ HoldsActor(t)
    BY <1>1, CommitShape
       DEF PostChanges, TopicChanges, OpensTopic, AddsReply, Charges, HoldsPost, TopicKinds, TopicActions,
           Pinning, PostActions
  <2>2. TopicOf(t) = posts[task[t].post].topic
    BY <1>1, TopicOfPost DEF IInv, PostKinds
  <2>3. /\ ~posts[task[t].post].deleted /\ CanReply(task[t].staff, posts[task[t].post].topic)
        /\ account[task[t].user].staff = task[t].staff
    BY <1>1, <2>1 DEF IInv, LocksHold
  <2> QED BY <2>2, <2>3
<1>2. IInv /\ [Next]_vars =>
        (\A t \in Slots : Commits(t) /\ task[t].kind = "reply" =>
           /\ ~posts[task[t].post].deleted
           /\ CanReply(account[task[t].user].staff, TopicOf(t)))
  BY <1>1
<1> QED BY <1>2, Invariantly, PTL DEF Spec, RepliesFindTheirPlace

\* An edit replaces the body its author was shown.
THEOREM NoLostEditAlways == Spec => NoLostEdit
<1>1. ASSUME IInv, [Next]_vars, NEW t \in Slots, Commits(t), task[t].kind = "edit"
      PROVE  posts[task[t].post].text = task[t].text
  <2>1. PICK p \in DOMAIN posts, x \in PostRows : PostChanges(t, p, x)
    BY <1>1, CommitShape
       DEF TopicChanges, OpensTopic, AddsReply, Charges, TopicKinds, TopicActions, Pinning, Publications
  <2>2. p = task[t].post /\ posts[p].revision = task[t].revision
    BY <1>1, <2>1 DEF PostChanges, PostActions
  <2> QED BY <1>1, <2>2 DEF IInv, TextIsRevision
<1>2. IInv /\ [Next]_vars =>
        (\A t \in Slots : Commits(t) /\ task[t].kind = "edit" => posts[task[t].post].text = task[t].text)
  BY <1>1
<1> QED BY <1>2, Invariantly, PTL DEF Spec, NoLostEdit

\* What is redacted is never written again.
THEOREM RedactionIsFinalAlways == Spec => RedactionIsFinal
<1>1. ASSUME IInv, [Next]_vars, NEW q \in DOMAIN posts, posts[q].redacted
      PROVE  posts'[q] = posts[q]
  <2>1. Shape /\ TypeOK
    BY <1>1, StepShape DEF IInv
  <2>2. ASSUME NEW t \in Slots, NEW p \in DOMAIN posts, NEW x \in PostRows, PostChanges(t, p, x)
        PROVE  posts'[q] = posts[q]
    <3>1. posts' = [posts EXCEPT ![p] = x] /\ p # q
      BY <1>1, <2>2 DEF PostChanges
    <3> QED BY <2>1, <3>1, PostReplaced
  <2>3. ASSUME NEW t \in Slots, NEW w \in Windows, NEW x \in PostRows, NEW y \in TopicRows,
               OpensTopic(t, w, x, y) \/ AddsReply(t, w, x, y)
        PROVE  posts'[q] = posts[q]
    <3>1. posts' = Append(posts, x)
      BY <2>3 DEF OpensTopic, AddsReply, Charges
    <3> QED BY <2>1, <3>1, PostAppended
  <2> QED BY <2>1, <2>2, <2>3, RowMoves DEF TopicChanges
<1>2. IInv /\ [Next]_vars => (\A p \in DOMAIN posts : posts[p].redacted => posts'[p] = posts[p])
  BY <1>1
<1> QED BY <1>2, Invariantly, PTL DEF Spec, RedactionIsFinal

-----------------------------------------------------------------------------
(* Numbers. *)

LEMMA Greatest ==
    ASSUME NEW S \in SUBSET Nat, IsFiniteSet(S), S # {}
    PROVE  \E n \in S : \A m \in S : m <= n
<1> DEFINE Above(n) == {m \in S : m > n}
           T == {Above(n) : n \in S}
<1>1. T \subseteq FiniteSubsetsOf(S) /\ T # {}
  <2>1. \A n \in S : Above(n) \in SUBSET S
    OBVIOUS
  <2>2. T \subseteq SUBSET S /\ T # {}
    BY <2>1
  <2> HIDE DEF T
  <2> QED BY <2>2, FS_FiniteSubsetsOfFinite
<1>2. PICK x \in T : \A y \in T : <<y, x>> \notin StrictSubsetOrdering(S)
  <2> HIDE DEF T
  <2> QED BY <1>1, FS_StrictSubsetOrderingWellFounded, WFMin
<1>3. PICK n \in S : x = Above(n)
  OBVIOUS
<1>4. ASSUME NEW m \in S, ~(m <= n) PROVE FALSE
  <2>1. m \in Nat /\ n \in Nat /\ m > n
    BY <1>4
  <2>2. (\A k \in S : k > m => k > n) /\ ~(m > m)
    BY <2>1
  <2>3. Above(m) \subseteq Above(n) /\ m \in Above(n) /\ m \notin Above(m)
    BY <2>1, <2>2, Zenon
  <2>4. <<Above(m), Above(n)>> \in StrictSubsetOrdering(S)
    <3>1. Above(m) \in SUBSET S /\ Above(n) \in SUBSET S /\ Above(m) # Above(n)
      BY <2>3
    <3> HIDE DEF Above
    <3> QED BY <2>3, <3>1 DEF StrictSubsetOrdering
  <2>5. Above(m) \in T
    OBVIOUS
  <2> QED BY <1>2, <1>3, <2>4, <2>5
<1> QED BY <1>4

LEMMA ReportMax ==
    ASSUME NEW S \in SUBSET Nat, IsFiniteSet(S), S # {}
    PROVE  Report!Max(S) \in S /\ \A m \in S : m <= Report!Max(S)
<1>1. PICK n \in S : \A m \in S : m <= n
  BY Greatest
<1>2. \A m \in S : n >= m
  BY <1>1
<1>3. \E x \in S : \A y \in S : x >= y
  BY <1>2
<1>4. Report!Max(S) \in S /\ \A y \in S : Report!Max(S) >= y
  BY <1>3 DEF Report!Max
<1> QED BY <1>4

\* Of two times.
LEMMA PairIsFinite ==
    ASSUME NEW a, NEW b
    PROVE  IsFiniteSet({a, b})
<1>1. {a, b} = ({} \cup {a}) \cup {b}
  OBVIOUS
<1>2. IsFiniteSet({} \cup {a})
  BY FS_EmptySet, FS_AddElement
<1>3. IsFiniteSet(({} \cup {a}) \cup {b})
  BY <1>2, FS_AddElement, Zenon
<1> QED BY <1>1, <1>3

LEMMA LaterTime ==
    ASSUME NEW a \in Nat, NEW b \in Nat
    PROVE  Report!Max({a, b}) \in {a, b} /\ Report!Max({a, b}) >= a /\ Report!Max({a, b}) >= b
<1>1. {a, b} \in SUBSET Nat /\ {a, b} # {} /\ IsFiniteSet({a, b})
  BY PairIsFinite
<1>2. Report!Max({a, b}) \in {a, b} /\ \A n \in {a, b} : n <= Report!Max({a, b})
  BY <1>1, ReportMax, Zenon
<1>3. ASSUME NEW m, m \in {a, b}, \A n \in {a, b} : n <= m
      PROVE  m >= a /\ m >= b
  BY <1>3
<1> QED BY <1>2, <1>3, Zenon


-----------------------------------------------------------------------------
(* Reports and discipline: the inductive invariant. *)

\* An account in good standing has no suspension, whatever clock it is read by.
StandingIsExact == \A u \in Reporters : person[u].accepted => person[u].suspended_at = Report!NullTime

\* A call began before now and is about rows that are there; what it asked of
\* the row it locked still holds, and so does the number of reports it counted.
CallStands(c) ==
    /\ c.at <= today
    /\ c.kind \in Report!Disciplines => c.target # c.actor
    /\ c.kind \in Report!ReportActions => c.report \in DOMAIN reports
    /\ c.step # "begin" =>
         /\ c.kind = "report" => Report!ReporterMatches(person[c.actor], c)
         /\ c.kind \in Report!ReportActions => Report!persistedStaffMatches(person[c.actor], c)
    /\ c.step = "counted" =>
         /\ c.count < ReportLimit
         /\ Cardinality(Report!ActiveReportsOf(c.actor)) <= c.count

CallsStand == \A t \in Slots : errand[t] # Report!Free => CallStands(errand[t])

\* A user row is locked by one call at a time.
RowsAreHeldOnce == \A s, t \in Slots : s # t => Report!Held(s) \cap Report!Held(t) = {}

\* Every row has a shape that its page shows.
RowsAreServed ==
    \A r \in DOMAIN reports :
      Report!validReportDetailRow(reports[r]) /\ Report!validModerationReportDetail(reports[r])

ReportInv ==
    /\ Report!TypeOK /\ StandingIsExact /\ CallsStand /\ RowsAreHeldOnce
    /\ Report!ActiveReportsAreBounded /\ RowsAreServed

-----------------------------------------------------------------------------
(* Reports and discipline: calls and rows. *)

ReportCall ==
    [kind : {"report"}, step : {"begin", "first", "counted"}, actor : Reporters, role : Report!Roles,
     at : 0..ReportTime, target : Report!Targets, count : 0..ReportsKept]
ActionCall ==
    [kind : Report!ReportActions, step : {"begin", "first"}, actor : Reporters, role : Report!StaffRoles,
     at : 0..ReportTime, report : 1..ReportsKept]
WarnCall ==
    [kind : {"warn"}, step : {"begin", "first"}, actor : Reporters, role : Report!StaffRoles,
     at : 0..ReportTime, target : Reporters]
MuteCall ==
    [kind : {"mute"}, step : {"begin", "first"}, actor : Reporters, role : Report!StaffRoles,
     at : 0..ReportTime, target : Reporters, duration : MuteDurations]

LEMMA CallKinds ==
    ASSUME NEW c \in Report!Calls
    PROVE  /\ c # Report!Free
           /\ c.kind = "report" => c \in ReportCall
           /\ c.kind \in Report!ReportActions => c \in ActionCall
           /\ c.kind = "warn" => c \in WarnCall
           /\ c.kind = "mute" => c \in MuteCall
           /\ c.kind \in {"report", "warn", "mute"} \cup Report!ReportActions
<1>1. c \in ReportCall \/ c \in ActionCall \/ c \in WarnCall \/ c \in MuteCall
  BY DEF Report!Calls, ReportCall, ActionCall, WarnCall, MuteCall
<1>2. /\ c \in ReportCall => c.kind = "report"
      /\ c \in ActionCall => c.kind \in Report!ReportActions
      /\ c \in WarnCall => c.kind = "warn"
      /\ c \in MuteCall => c.kind = "mute"
  BY DEF ReportCall, ActionCall, WarnCall, MuteCall
<1>3. Report!Free.kind = "free"
  BY DEF Report!Free
<1> QED BY <1>1, <1>2, <1>3 DEF Report!ReportActions

LEMMA CallFields ==
    ASSUME NEW c \in Report!Calls
    PROVE  /\ c.actor \in Reporters /\ c.at \in 0..ReportTime
           /\ c.role \in Report!Roles /\ c.kind # "report" => c.role \in Report!StaffRoles
           /\ c.step \in {"begin", "first", "counted"} /\ (c.step = "counted" => c.kind = "report")
           /\ c.kind \in Report!Disciplines => c.target \in Reporters
           /\ c.kind = "report" => c.target \in Report!Targets /\ c.count \in 0..ReportsKept
           /\ c.kind \in Report!ReportActions => c.report \in 1..ReportsKept
           /\ c.kind = "mute" => c.duration \in MuteDurations
<1>1. c.kind = "report" \/ c.kind \in Report!ReportActions \/ c.kind = "warn" \/ c.kind = "mute"
  BY CallKinds
<1>2. CASE c.kind = "report"
  BY <1>2, CallKinds DEF ReportCall, Report!ReportActions, Report!Disciplines
<1>3. CASE c.kind \in Report!ReportActions
  BY <1>3, CallKinds DEF ActionCall, Report!ReportActions, Report!Disciplines, Report!Roles
<1>4. CASE c.kind = "warn"
  BY <1>4, CallKinds DEF WarnCall, Report!ReportActions, Report!Disciplines, Report!Roles
<1>5. CASE c.kind = "mute"
  BY <1>5, CallKinds DEF MuteCall, Report!ReportActions, Report!Disciplines, Report!Roles
<1> QED BY <1>1, <1>2, <1>3, <1>4, <1>5

\* A call that takes its first row, and a report that has counted.
LEMMA CallMovesOn ==
    ASSUME NEW c \in Report!Calls
    PROVE  /\ [c EXCEPT !.step = "first"] \in Report!Calls
           /\ \A n \in 0..ReportsKept :
                c.kind = "report" => [c EXCEPT !.step = "counted", !.count = n] \in Report!Calls
<1>1. c.kind = "report" \/ c.kind \in Report!ReportActions \/ c.kind = "warn" \/ c.kind = "mute"
  BY CallKinds
<1>2. [c EXCEPT !.step = "first"] \in ReportCall \cup ActionCall \cup WarnCall \cup MuteCall
  <2>1. CASE c.kind = "report"
    BY <2>1, CallKinds DEF ReportCall
  <2>2. CASE c.kind \in Report!ReportActions
    BY <2>2, CallKinds DEF ActionCall
  <2>3. CASE c.kind = "warn"
    BY <2>3, CallKinds DEF WarnCall
  <2>4. CASE c.kind = "mute"
    BY <2>4, CallKinds DEF MuteCall
  <2> QED BY <1>1, <2>1, <2>2, <2>3, <2>4
<1>3. ASSUME NEW n \in 0..ReportsKept, c.kind = "report"
      PROVE  [c EXCEPT !.step = "counted", !.count = n] \in ReportCall
  BY <1>3, CallKinds DEF ReportCall
<1> QED BY <1>2, <1>3 DEF Report!Calls, ReportCall, ActionCall, WarnCall, MuteCall

LEMMA SlotCall ==
    ASSUME Report!TypeOK, NEW t \in Slots, errand[t] # Report!Free
    PROVE  errand[t] \in Report!Calls
BY DEF Report!TypeOK

LEMMA ErrandSet ==
    ASSUME Report!TypeOK, NEW t \in Slots, NEW c, errand' = [errand EXCEPT ![t] = c]
    PROVE  errand'[t] = c /\ \A s \in Slots : s # t => errand'[s] = errand[s]
BY DEF Report!TypeOK

LEMMA PersonRow ==
    ASSUME Report!TypeOK, NEW u \in Reporters
    PROVE  person[u] \in Report!AccountRows
BY DEF Report!TypeOK

LEMMA ReportRow ==
    ASSUME Report!TypeOK, NEW r \in DOMAIN reports
    PROVE  r \in 1..ReportsKept /\ reports[r] \in Report!ReportRows
BY PartsAssumption DEF Report!TypeOK, Report!ReportsAssumption

-----------------------------------------------------------------------------
(* Reports and discipline: what a step may be. *)

\* A handler has read its clock and its session.
CallBegins(t, c) ==
    /\ errand[t] = Report!Free /\ errand' = [errand EXCEPT ![t] = c]
    /\ c \in Report!Calls /\ c.step = "begin" /\ c.at = today
    /\ c.kind \in Report!Disciplines => c.target # c.actor
    /\ c.kind \in Report!ReportActions => c.report \in DOMAIN reports
    /\ UNCHANGED <<today, person, visible, deleted, reports, warned>>

\* A suspension, a reinstatement or a change of role.
StandingChanges(u, x) ==
    /\ Report!Unlocked(u) /\ person' = [person EXCEPT ![u] = x]
    /\ x \in Report!AccountRows /\ (x.accepted => x.suspended_at = Report!NullTime)
    /\ x.muted_until = person[u].muted_until
    /\ UNCHANGED <<today, visible, deleted, reports, warned, errand>>

\* Time passes, a topic or an area changes, a post is deleted.
WorldChanges ==
    /\ today' \in 0..ReportTime /\ today <= today'
    /\ visible' \in [ReportedTopics -> {"everyone", "staff", "nobody"}] /\ deleted' \subseteq ReportedPosts
    /\ UNCHANGED <<person, reports, warned, errand>>

LEMMA ReportBegins ==
    ASSUME Report!TypeOK, NEW t \in Slots, NEW u \in Reporters, NEW x \in Report!Targets,
           Report!StartReport(t, u, x)
    PROVE  \E c : CallBegins(t, c)
<1> DEFINE c == [kind |-> "report", step |-> "begin", actor |-> u, role |-> person[u].role,
                 at |-> today, target |-> x, count |-> 0]
<1>1. person[u].role \in Report!Roles /\ today \in 0..ReportTime /\ 0 \in 0..ReportsKept
  BY PersonRow, PartsAssumption DEF Report!AccountRows, Report!TypeOK, Report!ReportsAssumption
<1>2. c \in ReportCall
  BY <1>1 DEF ReportCall
<1>3. c \in Report!Calls /\ c.kind \notin Report!Disciplines /\ c.kind \notin Report!ReportActions
  BY <1>2 DEF ReportCall, Report!Calls, Report!Disciplines, Report!ReportActions
<1>4. CallBegins(t, c)
  BY <1>3 DEF CallBegins, Report!StartReport, Report!Begin
<1> QED BY <1>4

LEMMA ReportActionBegins ==
    ASSUME Report!TypeOK, NEW t \in Slots, NEW u \in Reporters, NEW kind \in Report!ReportActions,
           NEW r \in DOMAIN reports, Report!StartReportAction(t, u, kind, r)
    PROVE  \E c : CallBegins(t, c)
<1> DEFINE c == [kind |-> kind, step |-> "begin", actor |-> u, role |-> person[u].role,
                 at |-> today, report |-> r]
<1>1. person[u].role \in Report!StaffRoles /\ today \in 0..ReportTime /\ r \in 1..ReportsKept
  BY ReportRow DEF Report!TypeOK, Report!StartReportAction, Report!activeStaffActor
<1>2. c \in ActionCall
  BY <1>1 DEF ActionCall
<1>3. c \in Report!Calls /\ c.kind \notin Report!Disciplines
  BY <1>2 DEF ActionCall, Report!Calls, Report!Disciplines, Report!ReportActions
<1>4. CallBegins(t, c)
  BY <1>3 DEF CallBegins, Report!StartReportAction, Report!Begin
<1> QED BY <1>4

LEMMA DisciplineBegins ==
    ASSUME Report!TypeOK, NEW t \in Slots, NEW u \in Reporters, NEW v \in Reporters,
           NEW duration \in MuteDurations, Report!StartDiscipline(t, u, v, duration)
    PROVE  \E c : CallBegins(t, c)
<1> DEFINE w == [kind |-> "warn", step |-> "begin", actor |-> u, role |-> person[u].role,
                 at |-> today, target |-> v]
           m == [kind |-> "mute", step |-> "begin", actor |-> u, role |-> person[u].role,
                 at |-> today, target |-> v, duration |-> duration]
<1>1. person[u].role \in Report!StaffRoles /\ today \in 0..ReportTime /\ u # v
  BY DEF Report!TypeOK, Report!StartDiscipline, Report!activeStaffActor
<1>2. w \in WarnCall /\ m \in MuteCall
  BY <1>1 DEF WarnCall, MuteCall
<1>3. w \in Report!Calls /\ m \in Report!Calls
  BY <1>2 DEF WarnCall, MuteCall, Report!Calls
<1>4. w.kind \notin Report!ReportActions /\ m.kind \notin Report!ReportActions
  BY DEF Report!ReportActions
<1>5. Report!Begin(t, w) => CallBegins(t, w)
  BY <1>1, <1>3, <1>4 DEF CallBegins, Report!StartDiscipline, Report!Begin
<1>6. Report!Begin(t, m) => CallBegins(t, m)
  BY <1>1, <1>3, <1>4 DEF CallBegins, Report!StartDiscipline, Report!Begin
<1> QED BY <1>5, <1>6 DEF Report!StartDiscipline

LEMMA StandingMoves ==
    ASSUME Report!TypeOK, StandingIsExact, NEW u \in Reporters,
           \/ Report!SuspendUser(u) \/ Report!ReinstateUser(u)
           \/ \E r \in Report!Roles : Report!ChangeRole(u, r)
    PROVE  \E x : StandingChanges(u, x)
<1>1. /\ person[u] \in Report!AccountRows /\ person \in [Reporters -> Report!AccountRows]
      /\ today \in 0..ReportTime /\ ReportTime \in Nat
  BY PersonRow, PartsAssumption DEF Report!TypeOK, Report!ReportsAssumption
<1>2. CASE Report!SuspendUser(u)
  <2> DEFINE x == [person[u] EXCEPT !.accepted = FALSE, !.suspended_at = today]
  <2>1. today \in 0..Report!NullTime
    BY <1>1 DEF Report!NullTime
  <2>2. x \in Report!AccountRows /\ ~x.accepted /\ x.muted_until = person[u].muted_until
    BY <1>1, <2>1 DEF Report!AccountRows
  <2>3. person' = [person EXCEPT ![u] = x]
    BY <1>1, <1>2 DEF Report!SuspendUser, Report!AccountRows
  <2>4. StandingChanges(u, x)
    BY <1>2, <2>2, <2>3 DEF StandingChanges, Report!SuspendUser
  <2> QED BY <2>4
<1>3. CASE Report!ReinstateUser(u)
  <2> DEFINE x == [person[u] EXCEPT !.accepted = TRUE, !.suspended_at = Report!NullTime]
  <2>1. Report!NullTime \in 0..Report!NullTime
    BY <1>1 DEF Report!NullTime
  <2>2. x \in Report!AccountRows /\ x.suspended_at = Report!NullTime /\ x.muted_until = person[u].muted_until
    BY <1>1, <2>1 DEF Report!AccountRows
  <2>3. person' = [person EXCEPT ![u] = x]
    BY <1>1, <1>3 DEF Report!ReinstateUser, Report!AccountRows
  <2>4. StandingChanges(u, x)
    BY <1>3, <2>2, <2>3 DEF StandingChanges, Report!ReinstateUser
  <2> QED BY <2>4
<1>4. ASSUME NEW r \in Report!Roles, Report!ChangeRole(u, r)
      PROVE  \E x : StandingChanges(u, x)
  <2> DEFINE x == [person[u] EXCEPT !.role = r]
  <2>1. /\ x \in Report!AccountRows /\ x.muted_until = person[u].muted_until
        /\ x.accepted = person[u].accepted /\ x.suspended_at = person[u].suspended_at
    BY <1>1 DEF Report!AccountRows
  <2>2. person' = [person EXCEPT ![u] = x]
    BY <1>1, <1>4 DEF Report!ChangeRole, Report!AccountRows
  <2>3. StandingChanges(u, x)
    BY <1>4, <2>1, <2>2 DEF StandingChanges, Report!ChangeRole, StandingIsExact
  <2> QED BY <2>3
<1> QED BY <1>2, <1>3, <1>4

LEMMA WorldMoves ==
    ASSUME Report!TypeOK,
           \/ Report!Tick \/ \E p \in ReportedPosts : Report!DeletePost(p)
           \/ \E x \in ReportedTopics, v \in {"everyone", "staff", "nobody"} : Report!ChangeVisibility(x, v)
    PROVE  WorldChanges
<1>1. today \in 0..ReportTime /\ ReportTime \in Nat /\ deleted \subseteq ReportedPosts
      /\ visible \in [ReportedTopics -> {"everyone", "staff", "nobody"}]
  BY PartsAssumption DEF Report!TypeOK, Report!ReportsAssumption
<1>2. CASE Report!Tick
  BY <1>1, <1>2 DEF Report!Tick, WorldChanges
<1>3. ASSUME NEW p \in ReportedPosts, Report!DeletePost(p) PROVE WorldChanges
  BY <1>1, <1>3 DEF Report!DeletePost, WorldChanges
<1>4. ASSUME NEW x \in ReportedTopics, NEW v \in {"everyone", "staff", "nobody"}, Report!ChangeVisibility(x, v)
      PROVE  WorldChanges
  BY <1>1, <1>4 DEF Report!ChangeVisibility, WorldChanges
<1> QED BY <1>2, <1>3, <1>4

-----------------------------------------------------------------------------
(* Reports and discipline: what a transaction writes. *)

CallEnds(t) == errand[t] # Report!Free /\ errand' = [errand EXCEPT ![t] = Report!Free]

\* A transaction takes its first row.
TakesRow(t) ==
    /\ errand[t] # Report!Free /\ errand[t].step = "begin" /\ ~Report!Blocked(t)
    /\ errand' = [errand EXCEPT ![t] = [errand[t] EXCEPT !.step = "first"]]
    /\ errand[t].kind = "report" => Report!ReporterMatches(person[errand[t].actor], errand[t])
    /\ errand[t].kind \in Report!ReportActions =>
         Report!persistedStaffMatches(person[errand[t].actor], errand[t])
    /\ UNCHANGED <<today, person, visible, deleted, reports, warned>>

\* A report has counted those of its reporter.
Counts(t, n) ==
    /\ errand[t] # Report!Free /\ errand[t].kind = "report" /\ errand[t].step = "first"
    /\ n = Cardinality(Report!ActiveReportsOf(errand[t].actor)) /\ n < ReportLimit
    /\ errand' = [errand EXCEPT ![t] = [errand[t] EXCEPT !.step = "counted", !.count = n]]
    /\ UNCHANGED <<today, person, visible, deleted, reports, warned>>

\* A report is there.
AddsRow(t, x) ==
    /\ CallEnds(t) /\ errand[t].kind = "report" /\ errand[t].step = "counted" /\ Len(reports) < ReportsKept
    /\ reports' = Append(reports, x) /\ x \in Report!ReportRows
    /\ x.by = errand[t].actor /\ x.target = errand[t].target
    /\ ~Report!ActiveDuplicate(errand[t].actor, errand[t].target)
    /\ Report!validReportDetailRow(x) /\ Report!validModerationReportDetail(x)
    /\ UNCHANGED <<today, person, visible, deleted, warned>>

\* A report is claimed, annotated or finished.
ChangesRow(t, r, x) ==
    /\ CallEnds(t) /\ errand[t].kind \in Report!ReportActions /\ errand[t].step = "first"
    /\ r \in DOMAIN reports /\ reports' = [reports EXCEPT ![r] = x] /\ x \in Report!ReportRows
    /\ x.by = reports[r].by /\ x.target = reports[r].target
    /\ reports[r].status \in Report!ActiveStatuses
    /\ reports[r].assigned_to # Report!Nobody => x.assigned_to = reports[r].assigned_to
    /\ x.updated_at >= reports[r].updated_at
    /\ Report!validReportDetailRow(x) /\ Report!validModerationReportDetail(x)
    /\ UNCHANGED <<today, person, visible, deleted, warned>>

\* An account is warned or muted by another, and both rows are locked.
Disciplines(t, x) ==
    /\ CallEnds(t) /\ errand[t].kind \in Report!Disciplines /\ errand[t].step = "first"
    /\ ~Report!Blocked(t)
    /\ Report!persistedStaffMatches(person[errand[t].actor], errand[t])
    /\ x \in Report!AccountRows /\ person' = [person EXCEPT ![errand[t].target] = x]
    /\ x.role = person[errand[t].target].role /\ x.accepted = person[errand[t].target].accepted
    /\ x.suspended_at = person[errand[t].target].suspended_at
    /\ x.muted_until # person[errand[t].target].muted_until =>
         ~Report!MutedAt(person[errand[t].target], errand[t].at)
    /\ warned' \subseteq Reporters
    /\ UNCHANGED <<today, visible, deleted, reports>>

LEMMA LockTakes ==
    ASSUME Report!TypeOK, NEW t \in Slots, Report!LockUserForSuspension(t)
    PROVE  TakesRow(t)
<1>1. errand' = [errand EXCEPT ![t] = [errand[t] EXCEPT !.step = "first"]]
  BY SlotCall DEF Report!LockUserForSuspension, Report!TypeOK
<1>2. errand[t].kind = "report" => errand[t].kind \notin Report!ReportActions
  BY DEF Report!ReportActions
<1> QED BY <1>1, <1>2 DEF Report!LockUserForSuspension, TakesRow

LEMMA SameCardinality ==
    /\ \A S : Report!Cardinality(S) = Cardinality(S)
    /\ \A S : Report!IsFiniteSet(S) <=> IsFiniteSet(S)
<1>1. ASSUME NEW S PROVE Report!Cardinality(S) = Cardinality(S)
  BY DEF Report!Cardinality, Cardinality
<1>2. ASSUME NEW S PROVE Report!IsFiniteSet(S) <=> IsFiniteSet(S)
  BY DEF Report!IsFiniteSet, IsFiniteSet
<1> QED BY <1>1, <1>2

LEMMA ReportCounts ==
    ASSUME Report!TypeOK, NEW t \in Slots, Report!CountActiveReportsByReporter(t)
    PROVE  \E n : Counts(t, n)
<1> DEFINE n == Cardinality(Report!ActiveReportsOf(errand[t].actor))
<1>1. n = Report!Cardinality(Report!ActiveReportsOf(errand[t].actor))
  BY SameCardinality
<1>2. errand[t] \in Report!Calls /\ errand[t] \in ReportCall
  BY SlotCall, CallKinds DEF Report!CountActiveReportsByReporter
<1> HIDE DEF n
<1>3. errand' = [errand EXCEPT ![t].step = "counted", ![t].count = n] /\ n < ReportLimit
  BY <1>1 DEF Report!CountActiveReportsByReporter
<1>4. errand' = [errand EXCEPT ![t] = [errand[t] EXCEPT !.step = "counted", !.count = n]]
  BY <1>2, <1>3 DEF Report!TypeOK, ReportCall
<1> QED BY <1>3, <1>4 DEF Report!CountActiveReportsByReporter, Counts, n

LEMMA ReportAdds ==
    ASSUME Report!TypeOK, NEW t \in Slots, Report!CreateReport(t)
    PROVE  \E x : AddsRow(t, x)
<1> DEFINE x == [by |-> errand[t].actor, target |-> errand[t].target, status |-> "open",
                 assigned_to |-> Report!Nobody, resolved_by |-> Report!Nobody,
                 created_at |-> errand[t].at, updated_at |-> errand[t].at,
                 resolved_at |-> Report!NullTime, noted_at |-> Report!NullTime]
<1>1. /\ errand[t].actor \in Reporters /\ errand[t].at \in 0..ReportTime
      /\ errand[t].target \in Report!Targets
  BY SlotCall, CallFields DEF Report!CreateReport
<1>2. Report!NullTime \in 0..Report!NullTime /\ Report!NullTime > errand[t].at
  BY <1>1, PartsAssumption DEF Report!NullTime, Report!ReportsAssumption
<1>3. x \in Report!ReportRows
  BY <1>1, <1>2 DEF Report!ReportRows, Report!ActiveStatuses
<1>4. Report!validReportDetailRow(x) /\ Report!validModerationReportDetail(x)
  BY <1>1, <1>2 DEF Report!validReportDetailRow, Report!validModerationReportDetail,
                    Report!validActiveReportRow, Report!FinalStatuses
<1>5. AddsRow(t, x)
  BY <1>3, <1>4 DEF AddsRow, CallEnds, Report!CreateReport, Report!End
<1> QED BY <1>5

LEMMA RowOfReport ==
    ASSUME Report!TypeOK, RowsAreServed, NEW r \in DOMAIN reports, NEW at \in 0..ReportTime
    PROVE  LET later == Report!Max({at, reports[r].updated_at})
           IN /\ later \in 0..ReportTime
              /\ later >= reports[r].updated_at /\ later >= reports[r].created_at
<1>1. reports[r].updated_at \in 0..ReportTime /\ reports[r].created_at \in 0..ReportTime
      /\ ReportTime \in Nat /\ reports[r].updated_at >= reports[r].created_at
  BY ReportRow, PartsAssumption DEF Report!ReportRows, RowsAreServed, Report!validReportDetailRow,
                                    Report!ReportsAssumption
<1> DEFINE later == Report!Max({at, reports[r].updated_at})
<1>2. later \in {at, reports[r].updated_at} /\ later >= reports[r].updated_at
  BY <1>1, LaterTime
<1> HIDE DEF later
<1>3. later \in 0..ReportTime /\ later >= reports[r].updated_at /\ later >= reports[r].created_at
  BY <1>1, <1>2
<1> QED BY <1>3 DEF later

LEMMA ReportChanges ==
    ASSUME Report!TypeOK, RowsAreServed, CallsStand, NEW t \in Slots, Report!ProcessReport(t)
    PROVE  \E r, x : ChangesRow(t, r, x)
<1> DEFINE c == errand[t]
           r == c.report
           old == reports[r]
           at == Report!LockReportForModeration(t)
<1>1. /\ c # Report!Free /\ c.kind \in Report!ReportActions /\ c.step = "first"
      /\ errand' = [errand EXCEPT ![t] = Report!Free]
      /\ UNCHANGED <<today, person, visible, deleted, warned>>
  BY DEF Report!ProcessReport, Report!End
<1>2. /\ r \in DOMAIN reports /\ old \in Report!ReportRows /\ c.actor \in Reporters /\ c.at \in 0..ReportTime
      /\ Report!validReportDetailRow(old) /\ Report!validModerationReportDetail(old)
  BY <1>1, SlotCall, CallFields, ReportRow DEF CallsStand, CallStands, RowsAreServed
<1>3. at \in 0..ReportTime /\ at >= old.updated_at /\ at >= old.created_at
  BY <1>2, RowOfReport DEF Report!LockReportForModeration
<1>4. at < Report!NullTime /\ at \in 0..Report!NullTime /\ c.actor # Report!Nobody
  BY <1>2, <1>3, PartsAssumption DEF Report!NullTime, Report!Nobody, Report!ReportsAssumption
<1>5. ASSUME NEW x, reports' = [reports EXCEPT ![r] = x], x \in Report!ReportRows,
             x.by = old.by, x.target = old.target, old.status \in Report!ActiveStatuses,
             old.assigned_to # Report!Nobody => x.assigned_to = old.assigned_to,
             x.updated_at >= old.updated_at,
             Report!validReportDetailRow(x), Report!validModerationReportDetail(x)
      PROVE  ChangesRow(t, r, x)
  BY <1>1, <1>2, <1>5 DEF ChangesRow, CallEnds
<1> DEFINE claimed == [old EXCEPT !.status = "in_review", !.assigned_to = c.actor, !.updated_at = at]
           noted == [old EXCEPT !.noted_at = at]
           Finished(status) == [old EXCEPT !.status = status, !.resolved_by = c.actor,
                                           !.resolved_at = at, !.updated_at = at]
<1>6. CASE Report!ClaimReportAndAudit(t)
  <2>1. old.status = "open" /\ old.assigned_to = Report!Nobody
    BY <1>6 DEF Report!ClaimReportAndAudit
  <2>2. reports' = [reports EXCEPT ![r] = claimed]
    <3>1. reports' = [reports EXCEPT ![r].status = "in_review", ![r].assigned_to = c.actor,
                                     ![r].updated_at = at]
      BY <1>6 DEF Report!ClaimReportAndAudit
    <3> QED BY <3>1, <1>2 DEF Report!ReportRows, Report!TypeOK
  <2>3. /\ claimed \in Report!ReportRows
        /\ claimed.by = old.by /\ claimed.target = old.target /\ claimed.updated_at = at
        /\ claimed.created_at = old.created_at /\ claimed.noted_at = old.noted_at
        /\ claimed.status = "in_review" /\ claimed.assigned_to = c.actor
        /\ claimed.resolved_by = old.resolved_by /\ claimed.resolved_at = old.resolved_at
    BY <1>2, <1>3 DEF Report!ReportRows, Report!ActiveStatuses
  <2>4. old.resolved_by = Report!Nobody /\ old.resolved_at = Report!NullTime
    BY <1>2, <2>1 DEF Report!validReportDetailRow, Report!FinalStatuses
  <2> HIDE DEF claimed
  <2>5. Report!validReportDetailRow(claimed) /\ Report!validModerationReportDetail(claimed)
    BY <1>2, <1>3, <1>4, <2>3, <2>4
       DEF Report!validReportDetailRow, Report!validModerationReportDetail, Report!validActiveReportRow,
           Report!FinalStatuses
  <2>6. ChangesRow(t, r, claimed)
    BY <1>3, <1>5, <2>1, <2>2, <2>3, <2>5 DEF Report!ActiveStatuses
  <2> QED BY <2>6
<1>7. CASE Report!MayFinish(old, c.actor, c.role)
  <2>1. old.status = "in_review" /\ old.assigned_to # Report!Nobody
        /\ old.resolved_by = Report!Nobody /\ old.resolved_at = Report!NullTime
    BY <1>2, <1>7 DEF Report!MayFinish, Report!validReportDetailRow, Report!FinalStatuses
  <2>2. CASE Report!AddReportNoteAndAudit(t)
    <3>1. reports' = [reports EXCEPT ![r] = noted]
      <4>1. reports' = [reports EXCEPT ![r].noted_at = at]
        BY <2>2 DEF Report!AddReportNoteAndAudit
      <4> QED BY <4>1, <1>2 DEF Report!ReportRows, Report!TypeOK
    <3>2. /\ noted \in Report!ReportRows
          /\ noted.by = old.by /\ noted.target = old.target /\ noted.updated_at = old.updated_at
          /\ noted.created_at = old.created_at /\ noted.noted_at = at
          /\ noted.status = "in_review" /\ noted.assigned_to = old.assigned_to
          /\ noted.resolved_by = old.resolved_by /\ noted.resolved_at = old.resolved_at
      BY <1>2, <1>4, <2>1 DEF Report!ReportRows
    <3> HIDE DEF noted
    <3>3. Report!validReportDetailRow(noted) /\ Report!validModerationReportDetail(noted)
      BY <1>2, <1>3, <2>1, <3>2
         DEF Report!validReportDetailRow, Report!validModerationReportDetail, Report!validActiveReportRow,
             Report!FinalStatuses
    <3>4. noted.updated_at >= old.updated_at
      BY <1>2, <3>2 DEF Report!ReportRows
    <3>5. ChangesRow(t, r, noted)
      BY <1>5, <2>1, <3>1, <3>2, <3>3, <3>4 DEF Report!ActiveStatuses
    <3> QED BY <3>5
  <2>3. ASSUME NEW status \in Report!FinalStatuses, Report!FinishReportAndAudit(t, status)
        PROVE  \E x : ChangesRow(t, r, x)
    <3> DEFINE x == Finished(status)
    <3>1. reports' = [reports EXCEPT ![r] = x]
      <4>1. reports' = [reports EXCEPT ![r].status = status, ![r].resolved_by = c.actor,
                                       ![r].resolved_at = at, ![r].updated_at = at]
        BY <2>3 DEF Report!FinishReportAndAudit
      <4> QED BY <4>1, <1>2 DEF Report!ReportRows, Report!TypeOK
    <3>2. /\ x \in Report!ReportRows
          /\ x.by = old.by /\ x.target = old.target /\ x.updated_at = at
          /\ x.created_at = old.created_at /\ x.noted_at = old.noted_at
          /\ x.status = status /\ x.assigned_to = old.assigned_to
          /\ x.resolved_by = c.actor /\ x.resolved_at = at
      BY <1>2, <1>3, <1>4, <2>3 DEF Report!ReportRows
    <3> HIDE DEF x
    <3>3. at # Report!NullTime
      BY <1>3, <1>4
    <3>4. Report!validReportDetailRow(x)
      BY <1>2, <1>3, <1>4, <2>1, <2>3, <3>2, <3>3 DEF Report!validReportDetailRow
    <3>5. Report!validModerationReportDetail(x)
      BY <1>2, <1>3, <3>2 DEF Report!validModerationReportDetail
    <3>6. ChangesRow(t, r, x)
      BY <1>3, <1>5, <2>1, <3>1, <3>2, <3>4, <3>5 DEF Report!ActiveStatuses
    <3> QED BY <3>6
  <2>4. \/ Report!AddReportNoteAndAudit(t)
        \/ Report!FinishReportAndAudit(t, "resolved") \/ Report!FinishReportAndAudit(t, "dismissed")
        \/ Report!ClaimReportAndAudit(t)
    BY DEF Report!ProcessReport
  <2>5. CASE Report!FinishReportAndAudit(t, "resolved") \/ Report!FinishReportAndAudit(t, "dismissed")
    BY <2>3, <2>5 DEF Report!FinalStatuses
  <2> QED BY <1>6, <2>2, <2>4, <2>5
<1>8. Report!ClaimReportAndAudit(t) \/ Report!MayFinish(old, c.actor, c.role)
  BY DEF Report!ProcessReport
<1> QED BY <1>6, <1>7, <1>8

LEMMA DisciplineApplies ==
    ASSUME Report!TypeOK, NEW t \in Slots, Report!applyUserAction(t)
    PROVE  \E x : Disciplines(t, x)
<1> DEFINE c == errand[t]
           v == c.target
           muted == [person[v] EXCEPT !.muted_until = c.at + c.duration]
<1>1. c \in Report!Calls /\ c.kind \in Report!Disciplines /\ v \in Reporters /\ c.at \in 0..ReportTime
  BY SlotCall, CallFields DEF Report!applyUserAction
<1>2. person[v] \in Report!AccountRows /\ person \in [Reporters -> Report!AccountRows] /\ warned \subseteq Reporters
  BY <1>1, PersonRow DEF Report!TypeOK
<1>3. /\ CallEnds(t) /\ c.step = "first" /\ ~Report!Blocked(t)
      /\ Report!persistedStaffMatches(person[c.actor], c)
      /\ UNCHANGED <<today, visible, deleted, reports>>
  BY DEF Report!applyUserAction, Report!End, CallEnds
<1>4. CASE c.kind = "warn" /\ Report!WarnUserAndAudit(t) /\ UNCHANGED person
  <2>1. person' = [person EXCEPT ![v] = person[v]] /\ warned' \subseteq Reporters
    BY <1>1, <1>2, <1>4 DEF Report!WarnUserAndAudit
  <2>2. Disciplines(t, person[v])
    BY <1>1, <1>2, <1>3, <2>1 DEF Disciplines
  <2> QED BY <2>2
<1>5. CASE c.kind = "mute" /\ Report!MuteUserAndAudit(t) /\ UNCHANGED warned
  <2>1. c.duration \in MuteDurations /\ MuteDurations \subseteq Nat /\ MuteDurations # {}
        /\ IsFiniteSet(MuteDurations) /\ ReportTime \in Nat
    BY <1>1, <1>5, CallFields, PartsAssumption, SameCardinality DEF Report!ReportsAssumption
  <2>2. Report!Max(MuteDurations) \in Nat /\ c.duration <= Report!Max(MuteDurations) /\ c.duration \in Nat
    BY <2>1, ReportMax
  <2>3. c.at + c.duration \in 0..ReportTime + Report!Max(MuteDurations)
    BY <1>1, <2>1, <2>2
  <2>4. /\ muted \in Report!AccountRows /\ muted.role = person[v].role
        /\ muted.accepted = person[v].accepted /\ muted.suspended_at = person[v].suspended_at
    BY <1>2, <2>3 DEF Report!AccountRows
  <2>5. person' = [person EXCEPT ![v] = muted] /\ ~Report!MutedAt(person[v], c.at)
    BY <1>2, <1>5 DEF Report!MuteUserAndAudit, Report!AccountRows
  <2> HIDE DEF muted
  <2>6. Disciplines(t, muted)
    BY <1>1, <1>2, <1>3, <1>5, <2>4, <2>5 DEF Disciplines
  <2> QED BY <2>6
<1> QED BY <1>4, <1>5 DEF Report!applyUserAction

\* A transaction is rolled back.
LeavesNothing(t) == CallEnds(t) /\ UNCHANGED <<today, person, visible, deleted, reports, warned>>

CallSteps(t) ==
    \/ \E c : CallBegins(t, c)
    \/ TakesRow(t) \/ LeavesNothing(t)
    \/ \E n : Counts(t, n)
    \/ \E x : AddsRow(t, x) \/ Disciplines(t, x)
    \/ \E r, x : ChangesRow(t, r, x)

ReportShape ==
    \/ UNCHANGED reportVars \/ WorldChanges
    \/ \E u \in Reporters : \E x : StandingChanges(u, x)
    \/ \E t \in Slots : CallSteps(t)

LEMMA ReportSteps ==
    ASSUME ReportInv, Report!Next \/ UNCHANGED reportVars
    PROVE  ReportShape
<1> USE DEF ReportInv, ReportShape
<1>1. ASSUME NEW u \in Reporters,
             \/ Report!SuspendUser(u) \/ Report!ReinstateUser(u)
             \/ \E r \in Report!Roles : Report!ChangeRole(u, r)
      PROVE  \E x : StandingChanges(u, x)
  BY <1>1, StandingMoves
<1>2. ASSUME NEW t \in Slots,
             \/ \E u \in Reporters, x \in Report!Targets : Report!StartReport(t, u, x)
             \/ \E u \in Reporters, kind \in Report!ReportActions, r \in DOMAIN reports :
                  Report!StartReportAction(t, u, kind, r)
             \/ \E u, v \in Reporters, duration \in MuteDurations : Report!StartDiscipline(t, u, v, duration)
      PROVE  \E c : CallBegins(t, c)
  BY <1>2, ReportBegins, ReportActionBegins, DisciplineBegins
<1>3. ASSUME NEW t \in Slots,
             \/ Report!LockUserForSuspension(t) \/ Report!CountActiveReportsByReporter(t)
             \/ Report!CreateReport(t) \/ Report!ProcessReport(t) \/ Report!applyUserAction(t)
             \/ Report!Rollback(t)
      PROVE  CallSteps(t)
  <2>1. Report!Rollback(t) => LeavesNothing(t)
    BY DEF Report!Rollback, Report!End, LeavesNothing, CallEnds
  <2> QED BY <1>3, <2>1, LockTakes, ReportCounts, ReportAdds, ReportChanges, DisciplineApplies DEF CallSteps
<1> QED BY <1>1, <1>2, <1>3, WorldMoves DEF Report!Next, CallSteps

LEMMA RangeIsFinite ==
    ASSUME NEW n \in Nat
    PROVE  IsFiniteSet(1..n) /\ Cardinality(1..n) = n
BY FS_Interval

\* The active reports of an account are finitely many.
LEMMA ActiveIsFinite ==
    ASSUME Report!TypeOK, NEW u
    PROVE  /\ Report!ActiveReportsOf(u) \subseteq 1..Len(reports) /\ Len(reports) \in Nat
           /\ IsFiniteSet(Report!ActiveReportsOf(u))
           /\ Cardinality(Report!ActiveReportsOf(u)) \in 0..ReportsKept
<1>1. /\ Report!ActiveReportsOf(u) \subseteq 1..Len(reports) /\ Len(reports) \in Nat
      /\ Len(reports) <= ReportsKept /\ ReportsKept \in Nat
  BY PartsAssumption DEF Report!ActiveReportsOf, Report!TypeOK, Report!ReportsAssumption
<1>2. IsFiniteSet(1..Len(reports)) /\ Cardinality(1..Len(reports)) = Len(reports)
  BY <1>1, RangeIsFinite
<1>3. /\ IsFiniteSet(Report!ActiveReportsOf(u))
      /\ Cardinality(Report!ActiveReportsOf(u)) <= Len(reports)
  BY <1>1, <1>2, FS_Subset
<1>4. Cardinality(Report!ActiveReportsOf(u)) \in Nat
  BY <1>3, FS_CardinalityType
<1> QED BY <1>1, <1>3, <1>4

\* The call of a slot after a step of it.
LEMMA CallAfter ==
    ASSUME Report!TypeOK, NEW t \in Slots, CallSteps(t)
    PROVE  \E c \in {Report!Free} \cup Report!Calls :
             /\ errand' = [errand EXCEPT ![t] = c] /\ errand'[t] = c
             /\ \A s \in Slots : s # t => errand'[s] = errand[s]
<1>1. ASSUME NEW c, CallBegins(t, c)
      PROVE  errand' = [errand EXCEPT ![t] = c] /\ c \in Report!Calls
  BY <1>1 DEF CallBegins
<1>2. CASE TakesRow(t)
  <2> DEFINE c == [errand[t] EXCEPT !.step = "first"]
  <2>1. errand' = [errand EXCEPT ![t] = c] /\ c \in Report!Calls
    BY <1>2, SlotCall, CallMovesOn DEF TakesRow
  <2> HIDE DEF c
  <2> QED BY <2>1, ErrandSet
<1>3. CallEnds(t) => errand' = [errand EXCEPT ![t] = Report!Free]
  BY DEF CallEnds
<1>4. ASSUME NEW n, Counts(t, n)
      PROVE  \E c \in Report!Calls : errand' = [errand EXCEPT ![t] = c]
  <2> DEFINE c == [errand[t] EXCEPT !.step = "counted", !.count = n]
  <2>1. n \in 0..ReportsKept
    BY <1>4, ActiveIsFinite DEF Counts
  <2>2. errand' = [errand EXCEPT ![t] = c] /\ c \in Report!Calls
    BY <1>4, <2>1, SlotCall, CallMovesOn DEF Counts
  <2> HIDE DEF c
  <2> QED BY <2>2
<1>5. \/ \E c : CallBegins(t, c)
      \/ TakesRow(t) \/ CallEnds(t)
      \/ \E n : Counts(t, n)
  BY DEF CallSteps, LeavesNothing, AddsRow, ChangesRow, Disciplines
<1>6. \E c \in {Report!Free} \cup Report!Calls : errand' = [errand EXCEPT ![t] = c]
  BY <1>1, <1>2, <1>3, <1>4, <1>5
<1> QED BY <1>6, ErrandSet

-----------------------------------------------------------------------------
(* Reports and discipline: every step keeps the invariant. *)

LEMMA ReportTypeStep ==
    ASSUME Report!TypeOK, ReportShape
    PROVE  Report!TypeOK'
<1>1. CASE UNCHANGED reportVars
  BY <1>1 DEF reportVars, Report!TypeOK
<1>2. CASE WorldChanges
  BY <1>2 DEF WorldChanges, Report!TypeOK
<1>3. ASSUME NEW u \in Reporters, NEW x, StandingChanges(u, x) PROVE Report!TypeOK'
  BY <1>3 DEF StandingChanges, Report!TypeOK
<1>4. ASSUME NEW t \in Slots, CallSteps(t) PROVE Report!TypeOK'
  <2>1. errand' \in [Slots -> {Report!Free} \cup Report!Calls]
    BY <1>4, CallAfter, SMTT(30) DEF Report!TypeOK
  <2>2. today' = today /\ visible' = visible /\ deleted' = deleted
    BY <1>4 DEF CallSteps, CallBegins, TakesRow, LeavesNothing, Counts, AddsRow, Disciplines, ChangesRow
  <2>3. reports' \in Seq(Report!ReportRows) /\ Len(reports') <= ReportsKept
    <3>1. CASE reports' = reports
      BY <3>1 DEF Report!TypeOK
    <3>2. ASSUME NEW x, AddsRow(t, x) PROVE reports' \in Seq(Report!ReportRows) /\ Len(reports') <= ReportsKept
      BY <3>2, PartsAssumption DEF AddsRow, Report!TypeOK, Report!ReportsAssumption
    <3>3. ASSUME NEW r, NEW x, ChangesRow(t, r, x)
          PROVE  reports' \in Seq(Report!ReportRows) /\ Len(reports') <= ReportsKept
      BY <3>3, SMTT(30) DEF ChangesRow, Report!TypeOK
    <3> QED BY <1>4, <3>1, <3>2, <3>3 DEF CallSteps, CallBegins, TakesRow, LeavesNothing, Counts, Disciplines
  <2>4. person' \in [Reporters -> Report!AccountRows] /\ warned' \subseteq Reporters
    BY <1>4 DEF CallSteps, CallBegins, TakesRow, LeavesNothing, Counts, AddsRow, Disciplines, ChangesRow,
                Report!TypeOK
  <2> QED BY <2>1, <2>2, <2>3, <2>4 DEF Report!TypeOK
<1> QED BY <1>1, <1>2, <1>3, <1>4 DEF ReportShape

LEMMA StandingStep ==
    ASSUME Report!TypeOK, StandingIsExact, ReportShape
    PROVE  StandingIsExact'
<1>1. CASE person' = person
  BY <1>1 DEF StandingIsExact
<1>2. ASSUME NEW u \in Reporters, NEW x, StandingChanges(u, x) PROVE StandingIsExact'
  BY <1>2 DEF StandingChanges, StandingIsExact, Report!TypeOK
<1>3. ASSUME NEW t \in Slots, NEW x, Disciplines(t, x) PROVE StandingIsExact'
  BY <1>3, SlotCall, CallFields DEF Disciplines, CallEnds, StandingIsExact, Report!TypeOK
<1> QED BY <1>1, <1>2, <1>3 DEF ReportShape, CallSteps, reportVars, WorldChanges, CallBegins, TakesRow,
                                LeavesNothing, Counts, AddsRow, ChangesRow

\* What a call holds: its first row, which is its actor's for a report.
LEMMA HeldRow ==
    ASSUME Report!TypeOK, NEW t \in Slots
    PROVE  /\ errand[t] = Report!Free => Report!Held(t) = {}
           /\ errand[t] # Report!Free =>
                /\ errand[t].step = "begin" => Report!Held(t) = {}
                /\ errand[t].step # "begin" => Report!Held(t) = {Report!LockOrder(errand[t])[1]}
                /\ errand[t].kind \notin Report!Disciplines => Report!LockOrder(errand[t])[1] = errand[t].actor
BY DEF Report!Held, Report!LockOrder

LEMMA HeldAsCalled ==
    ASSUME NEW s \in Slots, errand'[s] = errand[s]
    PROVE  Report!Held(s)' = Report!Held(s)
BY DEF Report!Held, Report!LockOrder

\* A step releases what its call held, keeps it, or takes a row that is free.
LEMMA HeldAfter ==
    ASSUME Report!TypeOK, NEW t \in Slots, CallSteps(t)
    PROVE  \/ Report!Held(t)' \subseteq Report!Held(t)
           \/ \A s \in Slots : s # t => Report!Held(t)' \cap Report!Held(s) = {}
<1>1. PICK c \in {Report!Free} \cup Report!Calls : errand'[t] = c /\ errand' = [errand EXCEPT ![t] = c]
  BY CallAfter
<1>2. ASSUME c = Report!Free \/ c.step = "begin" PROVE Report!Held(t)' = {}
  BY <1>1, <1>2 DEF Report!Held
<1>3. CASE (\E d : CallBegins(t, d)) \/ CallEnds(t)
  BY <1>1, <1>2, <1>3, ErrandSet DEF CallBegins, CallEnds
<1>4. CASE TakesRow(t)
  <2>1. c = [errand[t] EXCEPT !.step = "first"] /\ errand[t] \in Report!Calls
    BY <1>1, <1>4, ErrandSet, SlotCall DEF TakesRow
  <2>2. c.kind = errand[t].kind /\ c.actor = errand[t].actor /\ c.step = "first"
        /\ (c.kind \in Report!Disciplines => c.target = errand[t].target)
    BY <2>1, CallKinds DEF Report!Disciplines, ReportCall, ActionCall, WarnCall, MuteCall
  <2>3. c # Report!Free
    BY <2>1, CallMovesOn, CallKinds
  <2>4. Report!LockOrder(c) = Report!LockOrder(errand[t])
    BY <2>2 DEF Report!LockOrder
  <2>5. Report!Held(t)' = {Report!LockOrder(c)[1]}
    BY <1>1, <2>2, <2>3 DEF Report!Held, Report!LockOrder
  <2>6. Report!Needed(t) = {Report!LockOrder(errand[t])[1]}
    BY <1>4 DEF TakesRow, Report!Needed
  <2>7. \A s \in Slots : s # t => Report!Needed(t) \cap Report!Held(s) = {}
    BY <1>4 DEF TakesRow, Report!Blocked, Report!WaitsFor
  <2> QED BY <2>4, <2>5, <2>6, <2>7
<1>5. ASSUME NEW n, Counts(t, n) PROVE Report!Held(t)' = Report!Held(t)
  <2>1. c = [errand[t] EXCEPT !.step = "counted", !.count = n] /\ errand[t] \in ReportCall
        /\ errand[t] # Report!Free /\ errand[t].step = "first"
    BY <1>1, <1>5, ErrandSet, SlotCall, CallKinds DEF Counts
  <2>2. c.kind = "report" /\ c.actor = errand[t].actor /\ c.step = "counted" /\ errand[t].kind = "report"
    BY <2>1 DEF ReportCall
  <2>3. c # Report!Free
    BY <2>2 DEF Report!Free
  <2>4. Report!Held(t)' = {errand[t].actor} /\ Report!Held(t) = {errand[t].actor}
    BY <1>1, <2>1, <2>2, <2>3 DEF Report!Held, Report!LockOrder, Report!Disciplines
  <2> QED BY <2>4
<1>6. \/ \E d : CallBegins(t, d)
      \/ TakesRow(t) \/ CallEnds(t)
      \/ \E n : Counts(t, n)
  BY DEF CallSteps, LeavesNothing, AddsRow, ChangesRow, Disciplines
<1> QED BY <1>3, <1>4, <1>5, <1>6

LEMMA HeldStep ==
    ASSUME Report!TypeOK, RowsAreHeldOnce, ReportShape
    PROVE  RowsAreHeldOnce'
<1>1. CASE errand' = errand
  <2>1. \A s \in Slots : Report!Held(s)' = Report!Held(s)
    BY <1>1, HeldAsCalled
  <2> QED BY <2>1 DEF RowsAreHeldOnce
<1>2. ASSUME NEW t \in Slots, CallSteps(t) PROVE RowsAreHeldOnce'
  <2>1. \A s \in Slots : s # t => Report!Held(s)' = Report!Held(s)
    BY <1>2, CallAfter, HeldAsCalled
  <2>2. \A s \in Slots : s # t => Report!Held(t)' \cap Report!Held(s) = {}
    BY <1>2, HeldAfter DEF RowsAreHeldOnce
  <2> QED BY <2>1, <2>2 DEF RowsAreHeldOnce
<1> QED BY <1>1, <1>2 DEF ReportShape, reportVars, WorldChanges, StandingChanges

\* A transaction of another slot never changes what a locked row says.
LEMMA LockedRowStays ==
    ASSUME ReportInv, ReportShape, NEW s \in Slots, errand[s] # Report!Free, errand[s].step # "begin",
           errand[s].kind \notin Report!Disciplines,
           \/ \E t \in Slots : t # s /\ CallSteps(t)
           \/ \E u \in Reporters : \E x : StandingChanges(u, x)
    PROVE  person'[errand[s].actor] = person[errand[s].actor]
<1> USE DEF ReportInv
<1>1. /\ Report!Held(s) = {errand[s].actor} /\ errand[s].actor \in Reporters
      /\ person \in [Reporters -> Report!AccountRows]
  BY HeldRow, SlotCall, CallFields DEF Report!TypeOK
<1>2. ASSUME NEW u \in Reporters, NEW x, StandingChanges(u, x)
      PROVE  person'[errand[s].actor] = person[errand[s].actor]
  <2>1. u # errand[s].actor
    BY <1>1, <1>2 DEF StandingChanges, Report!Unlocked
  <2> QED BY <1>1, <1>2, <2>1 DEF StandingChanges
<1>3. ASSUME NEW t \in Slots, t # s, NEW x, Disciplines(t, x)
      PROVE  person'[errand[s].actor] = person[errand[s].actor]
  <2> DEFINE c == errand[t]
  <2>1. c \in Report!Calls /\ c # Report!Free /\ c.kind \in Report!Disciplines /\ c.step = "first"
    BY <1>3, SlotCall DEF Disciplines, CallEnds
  <2>2. Report!Held(t) = {Report!LockOrder(c)[1]} /\ Report!Needed(t) = {Report!LockOrder(c)[2]}
    BY <2>1, HeldRow DEF Report!Needed
  <2>3. c.target \in {Report!LockOrder(c)[1], Report!LockOrder(c)[2]}
    BY <2>1 DEF Report!LockOrder
  <2>4. Report!Needed(t) \cap Report!Held(s) = {}
    BY <1>3 DEF Disciplines, Report!Blocked, Report!WaitsFor
  <2>5. Report!Held(t) \cap Report!Held(s) = {}
    BY <1>3 DEF RowsAreHeldOnce
  <2>6. c.target # errand[s].actor
    BY <1>1, <2>2, <2>3, <2>4, <2>5
  <2> QED BY <1>1, <1>3, <2>6 DEF Disciplines
<1>4. ASSUME NEW t \in Slots, t # s, CallSteps(t), ~\E x : Disciplines(t, x)
      PROVE  person' = person
  BY <1>4 DEF CallSteps, CallBegins, TakesRow, LeavesNothing, Counts, AddsRow, ChangesRow
<1> QED BY <1>2, <1>3, <1>4

LEMMA RowsAfterAdding ==
    ASSUME Report!TypeOK, NEW t \in Slots, NEW x, AddsRow(t, x)
    PROVE  LET n == Len(reports) + 1
           IN /\ DOMAIN reports = 1..Len(reports) /\ DOMAIN reports' = DOMAIN reports \cup {n}
              /\ n \notin DOMAIN reports /\ reports'[n] = x
              /\ \A r \in DOMAIN reports : reports'[r] = reports[r]
<1>1. /\ reports' = Append(reports, x) /\ Len(reports) \in Nat /\ reports \in Seq(Report!ReportRows)
      /\ x \in Report!ReportRows
  BY DEF AddsRow, Report!TypeOK
<1> QED BY <1>1

LEMMA RowsAfterChange ==
    ASSUME Report!TypeOK, NEW t \in Slots, NEW r, NEW x, ChangesRow(t, r, x)
    PROVE  /\ DOMAIN reports' = DOMAIN reports /\ r \in DOMAIN reports
           /\ \A q \in DOMAIN reports : reports'[q] = IF q = r THEN x ELSE reports[q]
BY SMTT(30) DEF ChangesRow, Report!TypeOK

\* The active reports of an account after a step.
LEMMA ActiveAfter ==
    ASSUME Report!TypeOK, ReportShape, NEW u
    PROVE  \/ Report!ActiveReportsOf(u)' \subseteq Report!ActiveReportsOf(u)
           \/ /\ Report!ActiveReportsOf(u)' \subseteq Report!ActiveReportsOf(u) \cup {Len(reports) + 1}
              /\ \E t \in Slots : errand[t].actor = u /\ \E x : AddsRow(t, x)
<1>1. CASE reports' = reports
  BY <1>1 DEF Report!ActiveReportsOf
<1>2. ASSUME NEW t \in Slots, NEW x, AddsRow(t, x)
      PROVE  /\ Report!ActiveReportsOf(u)' \subseteq Report!ActiveReportsOf(u) \cup {Len(reports) + 1}
             /\ errand[t].actor # u => Report!ActiveReportsOf(u)' \subseteq Report!ActiveReportsOf(u)
  BY <1>2, RowsAfterAdding DEF Report!ActiveReportsOf, AddsRow
<1>3. ASSUME NEW t \in Slots, NEW r, NEW x, ChangesRow(t, r, x)
      PROVE  Report!ActiveReportsOf(u)' \subseteq Report!ActiveReportsOf(u)
  BY <1>3, RowsAfterChange, SMTT(30) DEF Report!ActiveReportsOf, ChangesRow
<1> QED BY <1>1, <1>2, <1>3
         DEF ReportShape, reportVars, WorldChanges, StandingChanges, CallSteps, CallBegins, TakesRow,
             LeavesNothing, Counts, Disciplines

LEMMA RowsRemain ==
    ASSUME Report!TypeOK, ReportShape
    PROVE  DOMAIN reports \subseteq DOMAIN reports' /\ today <= today'
<1>1. today \in Nat
  BY PartsAssumption DEF Report!TypeOK, Report!ReportsAssumption
<1>2. today <= today'
  <2>1. WorldChanges \/ today' = today
    BY DEF ReportShape, reportVars, StandingChanges, CallSteps, CallBegins, TakesRow, LeavesNothing, Counts,
           AddsRow, ChangesRow, Disciplines
  <2> QED BY <1>1, <2>1, SMTT(30) DEF WorldChanges
<1>3. ASSUME NEW t \in Slots, NEW x, AddsRow(t, x) PROVE DOMAIN reports \subseteq DOMAIN reports'
  BY <1>3, RowsAfterAdding
<1>4. ASSUME NEW t \in Slots, NEW r, NEW x, ChangesRow(t, r, x) PROVE DOMAIN reports \subseteq DOMAIN reports'
  BY <1>4, RowsAfterChange
<1> QED BY <1>2, <1>3, <1>4
         DEF ReportShape, reportVars, WorldChanges, StandingChanges, CallSteps, CallBegins, TakesRow,
             LeavesNothing, Counts, Disciplines

\* A call that the step leaves alone.
LEMMA OtherCallStands ==
    ASSUME ReportInv, ReportShape, NEW s \in Slots, errand[s] # Report!Free, errand'[s] = errand[s],
           UNCHANGED reportVars \/ WorldChanges \/ (\E u \in Reporters : \E x : StandingChanges(u, x))
             \/ \E t \in Slots : t # s /\ CallSteps(t)
    PROVE  CallStands(errand[s])'
<1> USE DEF ReportInv
<1> DEFINE c == errand[s]
<1>1. CallStands(c) /\ c \in Report!Calls
  BY SlotCall DEF CallsStand
<1>2. c.at \in Nat /\ today \in Nat /\ today' \in Nat
  BY <1>1, CallFields, ReportTypeStep, PartsAssumption DEF Report!TypeOK, Report!ReportsAssumption
<1>3. c.at <= today' /\ (c.kind \in Report!ReportActions => c.report \in DOMAIN reports')
  BY <1>1, <1>2, RowsRemain DEF CallStands
<1>4. ASSUME c.step # "begin", c.kind = "report" \/ c.kind \in Report!ReportActions
      PROVE  person'[c.actor] = person[c.actor]
  <2>1. c.kind \notin Report!Disciplines
    BY <1>4 DEF Report!Disciplines, Report!ReportActions
  <2>2. CASE UNCHANGED reportVars \/ WorldChanges
    BY <2>2 DEF reportVars, WorldChanges
  <2> QED BY <1>4, <2>1, <2>2, LockedRowStays
<1>5. ASSUME c.step = "counted"
      PROVE  c.count < ReportLimit /\ Cardinality(Report!ActiveReportsOf(c.actor)') <= c.count
  <2>1. c.kind = "report" /\ c.count \in Nat
    BY <1>1, <1>5, CallFields
  <2>2. ASSUME NEW t \in Slots, NEW x, AddsRow(t, x) PROVE errand[t].actor # c.actor
    <3>1. t # s /\ errand[t] # Report!Free /\ errand[t].step = "counted" /\ errand[t].kind = "report"
      <4>1. t = s => errand'[s] = Report!Free
        BY <2>2, ErrandSet DEF AddsRow, CallEnds
      <4> QED BY <2>2, <4>1 DEF AddsRow, CallEnds
    <3>2. Report!Held(t) = {errand[t].actor} /\ Report!Held(s) = {c.actor}
      BY <1>5, <2>1, <3>1, HeldRow DEF Report!Disciplines
    <3> QED BY <3>1, <3>2 DEF RowsAreHeldOnce
  <2>3. Report!ActiveReportsOf(c.actor)' \subseteq Report!ActiveReportsOf(c.actor)
    BY <2>2, ActiveAfter
  <2>4. Cardinality(Report!ActiveReportsOf(c.actor)') <= Cardinality(Report!ActiveReportsOf(c.actor))
        /\ IsFiniteSet(Report!ActiveReportsOf(c.actor)')
    BY <2>3, ActiveIsFinite, FS_Subset
  <2>5. Cardinality(Report!ActiveReportsOf(c.actor)') \in Nat /\ Cardinality(Report!ActiveReportsOf(c.actor)) \in Nat
    BY <2>4, ActiveIsFinite, FS_CardinalityType
  <2> QED BY <1>1, <1>5, <2>1, <2>4, <2>5 DEF CallStands
<1>6. c.step # "begin" =>
        /\ c.kind = "report" => Report!ReporterMatches(person'[c.actor], c)
        /\ c.kind \in Report!ReportActions => Report!persistedStaffMatches(person'[c.actor], c)
  BY <1>1, <1>4 DEF CallStands
<1> QED BY <1>1, <1>3, <1>5, <1>6 DEF CallStands, Report!ReporterMatches, Report!persistedStaffMatches,
           Report!userSuspendedAt, Report!MutedAt

LEMMA CallsStep ==
    ASSUME ReportInv, ReportShape
    PROVE  CallsStand'
<1> USE DEF ReportInv
<1>1. ASSUME NEW s \in Slots, errand'[s] = errand[s], errand'[s] # Report!Free,
             UNCHANGED reportVars \/ WorldChanges \/ (\E u \in Reporters : \E x : StandingChanges(u, x))
               \/ \E t \in Slots : t # s /\ CallSteps(t)
      PROVE  CallStands(errand[s])'
  BY <1>1, OtherCallStands
<1>2. CASE UNCHANGED reportVars \/ WorldChanges \/ (\E u \in Reporters : \E x : StandingChanges(u, x))
  <2>1. errand' = errand
    BY <1>2 DEF reportVars, WorldChanges, StandingChanges
  <2> QED BY <1>1, <1>2, <2>1 DEF CallsStand
<1>3. ASSUME NEW t \in Slots, CallSteps(t) PROVE CallsStand'
  <2>1. ASSUME NEW s \in Slots, s # t, errand'[s] # Report!Free PROVE CallStands(errand[s])'
    BY <1>1, <1>3, <2>1, CallAfter
  <2>2. ASSUME NEW c, CallBegins(t, c) PROVE CallStands(errand[t])'
    <3>1. errand'[t] = c /\ reports' = reports /\ today' = today /\ today \in Nat
      BY <2>2, ErrandSet, PartsAssumption DEF CallBegins, Report!TypeOK, Report!ReportsAssumption
    <3>2. c.at <= today
      BY <2>2, <3>1 DEF CallBegins
    <3>3. /\ c.kind \in Report!Disciplines => c.target # c.actor
          /\ c.kind \in Report!ReportActions => c.report \in DOMAIN reports'
          /\ c.step = "begin"
      BY <2>2, <3>1 DEF CallBegins
    <3> QED BY <3>1, <3>2, <3>3 DEF CallStands
  <2>3. ASSUME TakesRow(t) PROVE CallStands(errand[t])'
    <3> DEFINE c == errand[t]
    <3>1. errand'[t] = [c EXCEPT !.step = "first"] /\ c \in Report!Calls /\ CallStands(c)
      BY <2>3, ErrandSet, SlotCall DEF TakesRow, CallsStand
    <3>2. /\ errand'[t].kind = c.kind /\ errand'[t].actor = c.actor /\ errand'[t].at = c.at
          /\ errand'[t].role = c.role /\ errand'[t].step = "first"
          /\ c.kind \in Report!Disciplines => errand'[t].target = c.target
          /\ c.kind \in Report!ReportActions => errand'[t].report = c.report
      BY <3>1, CallKinds DEF Report!Disciplines, ReportCall, ActionCall, WarnCall, MuteCall
    <3>3. /\ c.kind = "report" => Report!ReporterMatches(person[c.actor], c)
          /\ c.kind \in Report!ReportActions => Report!persistedStaffMatches(person[c.actor], c)
          /\ person' = person /\ reports' = reports /\ today' = today
      BY <2>3 DEF TakesRow
    <3>4. /\ c.kind = "report" => Report!ReporterMatches(person[c.actor], errand'[t])
          /\ c.kind \in Report!ReportActions => Report!persistedStaffMatches(person[c.actor], errand'[t])
      BY <3>2, <3>3 DEF Report!ReporterMatches, Report!persistedStaffMatches, Report!userSuspendedAt,
                        Report!MutedAt
    <3>5. /\ c.at <= today /\ (c.kind \in Report!Disciplines => c.target # c.actor)
          /\ c.kind \in Report!ReportActions => c.report \in DOMAIN reports
      BY <3>1 DEF CallStands
    <3> HIDE DEF c
    <3>6. /\ (Report!ReporterMatches(person[errand[t].actor], errand[t]))' <=>
                Report!ReporterMatches(person'[errand'[t].actor], errand'[t])
          /\ (Report!persistedStaffMatches(person[errand[t].actor], errand[t]))' <=>
                Report!persistedStaffMatches(person'[errand'[t].actor], errand'[t])
      BY DEF Report!ReporterMatches, Report!persistedStaffMatches, Report!userSuspendedAt, Report!MutedAt
    <3>7. errand'[t].step # "counted"
      BY <3>2
    <3> QED BY <3>2, <3>3, <3>4, <3>5, <3>6, <3>7 DEF CallStands
  <2>4. ASSUME NEW n, Counts(t, n) PROVE CallStands(errand[t])'
    <3> DEFINE c == errand[t]
    <3>1. /\ errand'[t] = [c EXCEPT !.step = "counted", !.count = n] /\ CallStands(c)
          /\ c \in ReportCall /\ c.step = "first"
      BY <2>4, ErrandSet, SlotCall, CallKinds DEF Counts, CallsStand
    <3>2. /\ errand'[t].kind = "report" /\ errand'[t].actor = c.actor /\ errand'[t].at = c.at
          /\ errand'[t].role = c.role /\ errand'[t].step = "counted" /\ errand'[t].count = n
          /\ c.kind = "report"
      BY <3>1 DEF ReportCall
    <3>3. /\ n = Cardinality(Report!ActiveReportsOf(c.actor)) /\ n < ReportLimit /\ n \in Nat
          /\ person' = person /\ reports' = reports /\ today' = today
      BY <2>4, ActiveIsFinite DEF Counts
    <3>4. Report!ReporterMatches(person[c.actor], c) /\ c.at <= today
      BY <3>1, <3>2 DEF CallStands
    <3>5. Report!ActiveReportsOf(errand[t].actor)' = Report!ActiveReportsOf(c.actor)
      BY <3>2, <3>3 DEF Report!ActiveReportsOf
    <3>6. "report" \notin Report!Disciplines /\ "report" \notin Report!ReportActions
      BY DEF Report!Disciplines, Report!ReportActions
    <3> QED BY <3>2, <3>3, <3>4, <3>5, <3>6
            DEF CallStands, Report!ReporterMatches, Report!userSuspendedAt
  <2>5. CallEnds(t) => errand'[t] = Report!Free
    BY ErrandSet DEF CallEnds
  <2>6. errand'[t] # Report!Free => CallStands(errand[t])'
    <3>1. (\E c : CallBegins(t, c)) \/ TakesRow(t) \/ CallEnds(t) \/ (\E n : Counts(t, n))
      BY <1>3 DEF CallSteps, LeavesNothing, AddsRow, ChangesRow, Disciplines
    <3>2. (\E c : CallBegins(t, c)) => CallStands(errand[t])'
      BY <2>2
    <3>3. (\E n : Counts(t, n)) => CallStands(errand[t])'
      BY <2>4
    <3> QED BY <2>3, <2>5, <3>1, <3>2, <3>3
  <2>7. \A s \in Slots : errand'[s] # Report!Free => CallStands(errand[s])'
    BY <2>1, <2>6
  <2> QED BY <2>7 DEF CallsStand
<1> QED BY <1>2, <1>3 DEF ReportShape

LEMMA BoundedStep ==
    ASSUME ReportInv, ReportShape
    PROVE  Report!ActiveReportsAreBounded'
<1> USE DEF ReportInv
<1> SUFFICES ASSUME NEW u \in Reporters
             PROVE  /\ Cardinality(Report!ActiveReportsOf(u)') <= ReportLimit
                    /\ \A r, s \in Report!ActiveReportsOf(u)' :
                         reports'[r].target = reports'[s].target => r = s
  BY SameCardinality DEF Report!ActiveReportsAreBounded
<1> DEFINE A == Report!ActiveReportsOf(u)
           B == Report!ActiveReportsOf(u)'
<1>1. /\ Cardinality(A) <= ReportLimit /\ IsFiniteSet(A) /\ Cardinality(A) \in Nat /\ ReportLimit \in Nat
      /\ \A r, s \in A : reports[r].target = reports[s].target => r = s
      /\ A \subseteq DOMAIN reports
  <2>1. /\ Report!Cardinality(A) <= ReportLimit
        /\ \A r, s \in A : reports[r].target = reports[s].target => r = s
    BY DEF Report!ActiveReportsAreBounded
  <2>2. IsFiniteSet(A) /\ Cardinality(A) \in Nat
    BY ActiveIsFinite
  <2>3. ReportLimit \in Nat /\ A \subseteq DOMAIN reports
    BY PartsAssumption DEF Report!ReportsAssumption, Report!ActiveReportsOf
  <2>4. Report!Cardinality(A) = Cardinality(A)
    BY SameCardinality, SMTT(30)
  <2> QED BY <2>1, <2>2, <2>3, <2>4
<1>2. \A r \in DOMAIN reports : reports'[r].target = reports[r].target
  <2>1. ASSUME NEW t \in Slots, NEW x, AddsRow(t, x)
        PROVE  \A r \in DOMAIN reports : reports'[r].target = reports[r].target
    BY <2>1, RowsAfterAdding
  <2>2. ASSUME NEW t \in Slots, NEW q, NEW x, ChangesRow(t, q, x)
        PROVE  \A r \in DOMAIN reports : reports'[r].target = reports[r].target
    BY <2>2, RowsAfterChange DEF ChangesRow
  <2> QED BY <2>1, <2>2
          DEF ReportShape, reportVars, WorldChanges, StandingChanges, CallSteps, CallBegins, TakesRow,
              LeavesNothing, Counts, Disciplines
<1>3. CASE B \subseteq A
  <2>1. IsFiniteSet(B) /\ Cardinality(B) <= Cardinality(A)
    BY <1>1, <1>3, FS_Subset
  <2>2. Cardinality(B) \in Nat
    BY <2>1, FS_CardinalityType
  <2>3. Cardinality(B) <= ReportLimit
    BY <1>1, <2>1, <2>2
  <2>4. \A r, s \in B : reports'[r].target = reports'[s].target => r = s
    BY <1>1, <1>2, <1>3
  <2> QED BY <2>3, <2>4
<1>4. ASSUME NEW t \in Slots, errand[t].actor = u, NEW x, AddsRow(t, x), B \subseteq A \cup {Len(reports) + 1}
      PROVE  /\ Cardinality(B) <= ReportLimit
             /\ \A r, s \in B : reports'[r].target = reports'[s].target => r = s
  <2> DEFINE n == Len(reports) + 1
  <2>1. n \notin DOMAIN reports /\ reports'[n] = x
    BY <1>4, RowsAfterAdding
  <2>2. IsFiniteSet(A \cup {n}) /\ Cardinality(A \cup {n}) = Cardinality(A) + 1
    <3>1. n \notin A
      BY <1>1, <2>1
    <3> HIDE DEF A, n
    <3> QED BY <1>1, <3>1, FS_AddElement
  <2>3. IsFiniteSet(B) /\ Cardinality(B) <= Cardinality(A) + 1
    <3> HIDE DEF A, B, n
    <3> QED BY <1>4, <2>2, FS_Subset DEF n
  <2>4. Cardinality(A) < ReportLimit
    <3>1. errand[t].step = "counted" /\ CallStands(errand[t]) /\ errand[t] \in Report!Calls
          /\ errand[t].kind = "report"
      BY <1>4, SlotCall DEF AddsRow, CallEnds, CallsStand
    <3>2. errand[t].count < ReportLimit /\ Cardinality(A) <= errand[t].count /\ errand[t].count \in Nat
      BY <1>4, <3>1, CallFields DEF CallStands
    <3> QED BY <1>1, <3>2
  <2>5. Cardinality(B) <= ReportLimit
    <3>1. Cardinality(B) \in Nat
      BY <2>3, FS_CardinalityType
    <3> QED BY <1>1, <2>3, <2>4, <3>1
  <2>6. \A r \in A : reports'[r].target # x.target
    BY <1>1, <1>2, <1>4 DEF AddsRow, Report!ActiveDuplicate
  <2>7. \A r, s \in A \cup {n} : reports'[r].target = reports'[s].target => r = s
    BY <1>1, <1>2, <2>1, <2>6
  <2> QED BY <1>4, <2>5, <2>7
<1> QED BY <1>3, <1>4, ActiveAfter

LEMMA ServedStep ==
    ASSUME ReportInv, ReportShape
    PROVE  RowsAreServed'
<1> USE DEF ReportInv
<1> DEFINE Served(x) == Report!validReportDetailRow(x) /\ Report!validModerationReportDetail(x)
<1>1. \A r \in DOMAIN reports : Served(reports[r])
  BY SMTT(30) DEF RowsAreServed
<1>2. \A r \in DOMAIN reports' : Served(reports'[r])
  <2>1. ASSUME NEW t \in Slots, NEW x, AddsRow(t, x)
        PROVE  Served(x) /\ \A r \in DOMAIN reports' : reports'[r] = x \/ (r \in DOMAIN reports /\ reports'[r] = reports[r])
    BY <2>1, RowsAfterAdding DEF AddsRow
  <2>2. ASSUME NEW t \in Slots, NEW q, NEW x, ChangesRow(t, q, x)
        PROVE  Served(x) /\ \A r \in DOMAIN reports' : reports'[r] = x \/ (r \in DOMAIN reports /\ reports'[r] = reports[r])
    BY <2>2, RowsAfterChange DEF ChangesRow
  <2> HIDE DEF Served
  <2>3. CASE reports' = reports
    BY <1>1, <2>3
  <2> QED BY <1>1, <2>1, <2>2, <2>3
          DEF ReportShape, reportVars, WorldChanges, StandingChanges, CallSteps, CallBegins, TakesRow,
              LeavesNothing, Counts, Disciplines
<1>3. ASSUME NEW r \in DOMAIN reports' PROVE Report!validReportDetailRow(reports[r])'
                                             /\ Report!validModerationReportDetail(reports[r])'
  BY <1>2 DEF Report!validReportDetailRow, Report!validModerationReportDetail, Report!validActiveReportRow
<1> QED BY <1>3 DEF RowsAreServed


-----------------------------------------------------------------------------
(* Reports and discipline: the invariant, always. *)

LEMMA ReportInitially ==
    ASSUME Report!Init
    PROVE  ReportInv
<1>1. /\ reports = <<>> /\ DOMAIN reports = {} /\ warned = {} /\ deleted = {} /\ today = 0
      /\ errand = [t \in Slots |-> Report!Free]
      /\ person = [u \in Reporters |-> [role |-> ReporterRoles[u], accepted |-> TRUE,
                                        suspended_at |-> Report!NullTime, muted_until |-> 0]]
      /\ visible = [x \in ReportedTopics |-> "everyone"]
  BY DEF Report!Init
<1>2. Report!TypeOK
  <2>1. /\ MuteDurations \in SUBSET Nat /\ IsFiniteSet(MuteDurations) /\ MuteDurations # {}
        /\ ReportTime \in Nat /\ ReportsKept \in Nat /\ ReporterRoles \in [Reporters -> Report!Roles]
    BY PartsAssumption, SameCardinality DEF Report!ReportsAssumption, Report!Roles, Report!StaffRoles
  <2>2. Report!Max(MuteDurations) \in Nat
    BY <2>1, ReportMax
  <2>3. /\ 0 \in 0..ReportTime /\ Report!NullTime \in 0..Report!NullTime
        /\ 0 \in 0..ReportTime + Report!Max(MuteDurations)
    BY <2>1, <2>2 DEF Report!NullTime
  <2>4. person \in [Reporters -> Report!AccountRows]
    BY <1>1, <2>1, <2>3 DEF Report!AccountRows
  <2>5. reports \in Seq(Report!ReportRows) /\ Len(reports) <= ReportsKept
    BY <1>1, <2>1
  <2> QED BY <1>1, <2>3, <2>4, <2>5 DEF Report!TypeOK
<1>3. StandingIsExact /\ CallsStand /\ RowsAreServed
  BY <1>1 DEF StandingIsExact, CallsStand, RowsAreServed
<1>4. RowsAreHeldOnce
  BY <1>1 DEF RowsAreHeldOnce, Report!Held
<1>5. Report!ActiveReportsAreBounded
  <2>1. \A u : Report!ActiveReportsOf(u) = {}
    BY <1>1 DEF Report!ActiveReportsOf
  <2>2. Report!Cardinality({}) = 0 /\ ReportLimit \in Nat
    BY SameCardinality, FS_EmptySet, PartsAssumption DEF Report!ReportsAssumption
  <2> QED BY <2>1, <2>2 DEF Report!ActiveReportsAreBounded
<1> QED BY <1>2, <1>3, <1>4, <1>5 DEF ReportInv

LEMMA ReportStays ==
    ASSUME ReportInv, Report!Next \/ UNCHANGED reportVars
    PROVE  ReportInv'
<1>1. ReportShape /\ Report!TypeOK
  BY ReportSteps DEF ReportInv
<1>2. Report!TypeOK' /\ StandingIsExact' /\ RowsAreHeldOnce'
  BY <1>1, ReportTypeStep, StandingStep, HeldStep DEF ReportInv
<1>3. CallsStand' /\ Report!ActiveReportsAreBounded' /\ RowsAreServed'
  BY <1>1, CallsStep, BoundedStep, ServedStep
<1> QED BY <1>2, <1>3 DEF ReportInv

LEMMA PartMoves ==
    ASSUME [PartNext]_partVars
    PROVE  /\ Next \/ UNCHANGED vars
           /\ Report!Next \/ UNCHANGED reportVars
           /\ Read!Next \/ UNCHANGED readVars
           /\ Discover!Next \/ UNCHANGED discoverVars
           /\ part' = part
BY DEF PartNext, partVars

LEMMA ReportInvariantly == Report!Spec => []ReportInv
<1>1. Report!Init => ReportInv
  BY ReportInitially
<1>2. ReportInv /\ [Report!Next]_(Report!vars) => ReportInv'
  BY ReportStays DEF Report!vars, reportVars
<1> QED BY <1>1, <1>2, PTL DEF Report!Spec

\* Each part runs as its own module says.
LEMMA PartsRun == PartSpec => Spec /\ Report!Spec /\ Read!Spec /\ Discover!Spec
<1>1. PartInit => Init /\ Report!Init /\ Read!Init /\ Discover!Init
  BY DEF PartInit
<1>2. [PartNext]_partVars => /\ [Next]_vars /\ [Report!Next]_(Report!vars)
                             /\ [Read!Next]_(Read!vars) /\ [Discover!Next]_(Discover!vars)
  BY PartMoves DEF reportVars, readVars, discoverVars, Report!vars, Read!vars, Discover!vars
<1> QED BY <1>1, <1>2, PTL DEF PartSpec, Spec, Report!Spec, Read!Spec, Discover!Spec

\* Neither the window of publications nor the number of active reports of an
\* account is exceeded, although both are counted before they are written.
THEOREM LimitsHoldAlways == PartSpec => []LimitsHold
<1>1. IInv /\ ReportInv => LimitsHold
  BY DEF IInv, ReportInv, LimitsHold
<1> QED BY <1>1, ReportInvariantly, Invariantly, PartsRun, PTL

\* Calls that wait only for each other: one of them reports an account.
LEMMA CyclesFound ==
    ASSUME ReportInv
    PROVE  Report!CyclesNeedAnAccountReport
<1> USE DEF ReportInv
<1> SUFFICES ASSUME NEW circle \in (SUBSET Slots) \ {{}},
                    \A t \in circle : \E s \in circle : Report!WaitsFor(t, s),
                    \A w \in circle : ~(errand[w].kind = "report" /\ errand[w].target \in Reporters)
             PROVE  FALSE
  BY DEF Report!CyclesNeedAnAccountReport
<1> DEFINE first(w) == Report!LockOrder(errand[w])[1]
           second(w) == Report!LockOrder(errand[w])[2]
           Holding == {w \in circle : Report!Held(w) # {}}
           Places == {first(w) : w \in Holding}
<1>1. ASSUME NEW w \in Holding
      PROVE  /\ errand[w] \in Report!Calls /\ errand[w].kind \in Report!Disciplines
             /\ Report!Held(w) = {first(w)} /\ Report!Needed(w) = {second(w)}
  <2>1. Report!Held(w) # {} /\ Report!Needed(w) # {} /\ w \in Slots
    BY DEF Report!WaitsFor
  <2>2. errand[w] # Report!Free /\ errand[w].step # "begin" /\ errand[w] \in Report!Calls
    BY <2>1, HeldRow, SlotCall
  <2>3. errand[w].step # "counted"
    <3>1. ASSUME errand[w].step = "counted" PROVE FALSE
      <4>1. errand[w].kind = "report" /\ Report!Needed(w) = {errand[w].target} \cap Reporters
        BY <2>2, <3>1, CallFields DEF Report!Needed
      <4> QED BY <2>1, <4>1
    <3> QED BY <3>1
  <2>4. errand[w].step = "first"
    BY <2>2, <2>3, CallFields
  <2>5. errand[w].kind \in Report!Disciplines /\ Report!Needed(w) = {second(w)}
    BY <2>1, <2>2, <2>4 DEF Report!Needed
  <2> QED BY <2>1, <2>2, <2>5, HeldRow
<1>2. ASSUME NEW w \in Holding
      PROVE  first(w) < second(w) /\ first(w) \in Reporters /\ first(w) \in Nat /\ second(w) \in Nat
  <2>1. errand[w].actor \in Reporters /\ errand[w].target \in Reporters /\ errand[w].actor # errand[w].target
    BY <1>1, CallFields, CallKinds DEF CallsStand, CallStands
  <2>2. errand[w].actor \in Nat /\ errand[w].target \in Nat
    BY <2>1, PartsAssumption DEF Report!ReportsAssumption
  <2>3. Report!LockOrder(errand[w]) =
          IF errand[w].target < errand[w].actor THEN <<errand[w].target, errand[w].actor>>
          ELSE <<errand[w].actor, errand[w].target>>
    BY <1>1 DEF Report!LockOrder
  <2> QED BY <2>1, <2>2, <2>3
<1>3. \A t \in circle : \E s \in Holding : Report!Needed(t) \cap Report!Held(s) # {}
  BY DEF Report!WaitsFor
<1>4. Places \in SUBSET Nat /\ Places # {} /\ IsFiniteSet(Places)
  <2>1. Places \subseteq Reporters /\ Places \subseteq Nat
    <3> HIDE DEF Holding, first, second
    <3> QED BY <1>2
  <2>2. Holding # {}
    <3> HIDE DEF Holding
    <3> QED BY <1>3
  <2>3. IsFiniteSet(Reporters)
    BY PartsAssumption DEF Report!ReportsAssumption, Report!IsFiniteSet, IsFiniteSet
  <2> HIDE DEF Holding, first
  <2>4. Places # {}
    BY <2>2
  <2> HIDE DEF Places
  <2> QED BY <2>1, <2>3, <2>4, FS_Subset
<1>5. PICK n \in Places : \A m \in Places : m <= n
  <2> HIDE DEF Places
  <2> QED BY <1>4, ReportMax
<1>6. PICK w \in Holding : n = first(w)
  OBVIOUS
<1>7. PICK s \in Holding : Report!Needed(w) \cap Report!Held(s) # {}
  <2>1. w \in circle
    OBVIOUS
  <2> HIDE DEF Holding
  <2> QED BY <1>3, <2>1
<1> HIDE DEF Holding
<1>8. first(s) = second(w)
  BY <1>1, <1>7
<1>9. first(s) \in Places
  BY <1>7
<1> HIDE DEF Places, first, second
<1> QED BY <1>2, <1>5, <1>6, <1>7, <1>8, <1>9

\* Rows of accounts are locked in the order of their ids by every call that
\* moderates or disciplines: those never wait for each other in a circle.
THEOREM CyclesNeedAnAccountReportAlways == PartSpec => []CyclesNeedAnAccountReport
<1>1. ReportInv => CyclesNeedAnAccountReport
  BY CyclesFound DEF CyclesNeedAnAccountReport
<1> QED BY <1>1, ReportInvariantly, PartsRun, PTL

\* The actor of a call that commits, whatever has happened since its handler
\* read the clock and the session.
LEMMA ReportAuthority ==
    ASSUME ReportInv, Report!Next \/ UNCHANGED reportVars, NEW t \in Slots, Report!Commits(t)
    PROVE  LET row == person[errand[t].actor] IN
           /\ row.accepted /\ ~Report!userSuspendedAt(row, today) /\ row.role = errand[t].role
           /\ errand[t].kind # "report" => row.role \in Report!StaffRoles /\ ~Report!MutedAt(row, today)
<1> USE DEF ReportInv
<1> DEFINE c == errand[t]
           row == person[c.actor]
<1>1. ReportShape
  BY ReportSteps
<1>2. c \in Report!Calls /\ CallStands(c) /\ c.actor \in Reporters /\ row \in Report!AccountRows
  BY SlotCall, CallFields, PersonRow DEF Report!Commits, CallsStand
<1>3. \/ \E x : AddsRow(t, x)
      \/ \E r, x : ChangesRow(t, r, x)
      \/ \E x : Disciplines(t, x)
  <2>1. errand'[t] # errand[t] /\ errand' # errand /\ ~UNCHANGED <<person, reports, warned>>
    BY DEF Report!Commits
  <2>2. PICK s \in Slots : CallSteps(s)
    BY <1>1, <2>1 DEF ReportShape, reportVars, WorldChanges, StandingChanges
  <2>3. s = t
    BY <2>1, <2>2, CallAfter
  <2> QED BY <2>1, <2>2, <2>3 DEF CallSteps, CallBegins, TakesRow, LeavesNothing, Counts
<1>4. \/ c.kind = "report" /\ Report!ReporterMatches(row, c)
      \/ c.kind # "report" /\ Report!persistedStaffMatches(row, c)
  <2>1. ASSUME NEW x, AddsRow(t, x) PROVE c.kind = "report" /\ Report!ReporterMatches(row, c)
    BY <1>2, <2>1 DEF AddsRow, CallStands
  <2>2. ASSUME NEW r, NEW x, ChangesRow(t, r, x) PROVE c.kind # "report" /\ Report!persistedStaffMatches(row, c)
    BY <1>2, <2>2 DEF ChangesRow, CallStands, Report!ReportActions
  <2>3. ASSUME NEW x, Disciplines(t, x) PROVE c.kind # "report" /\ Report!persistedStaffMatches(row, c)
    BY <2>3 DEF Disciplines, Report!Disciplines
  <2> QED BY <1>3, <2>1, <2>2, <2>3
<1>5. row.accepted /\ row.role = c.role
  BY <1>4 DEF Report!ReporterMatches, Report!persistedStaffMatches
<1>6. ~Report!userSuspendedAt(row, today)
  <2>1. row.suspended_at = ReportTime + 1 /\ today \in 0..ReportTime /\ ReportTime \in Nat
    BY <1>2, <1>5, PartsAssumption DEF StandingIsExact, Report!NullTime, Report!TypeOK, Report!ReportsAssumption
  <2> QED BY <2>1 DEF Report!userSuspendedAt
<1>7. ASSUME c.kind # "report"
      PROVE  row.role \in Report!StaffRoles /\ ~Report!MutedAt(row, today)
  <2>1. row.role \in Report!StaffRoles /\ ~(row.muted_until > c.at)
    BY <1>4, <1>7 DEF Report!persistedStaffMatches, Report!MutedAt
  <2>2. c.at <= today /\ c.at \in Nat /\ today \in Nat /\ row.muted_until \in Nat
    <3>1. MuteDurations \in SUBSET Nat /\ IsFiniteSet(MuteDurations) /\ MuteDurations # {} /\ ReportTime \in Nat
      BY PartsAssumption, SameCardinality DEF Report!ReportsAssumption
    <3>2. Report!Max(MuteDurations) \in Nat
      BY <3>1, ReportMax
    <3>3. row.muted_until \in 0..ReportTime + Report!Max(MuteDurations)
      BY <1>2 DEF Report!AccountRows
    <3> QED BY <1>2, <3>1, <3>2, <3>3, CallFields DEF CallStands, Report!TypeOK
  <2> QED BY <2>1, <2>2 DEF Report!MutedAt
<1> QED BY <1>5, <1>6, <1>7

\* An account that reports or moderates is in good standing and in the role of
\* its session when its call commits, although the call waited with an old clock.
THEOREM ReportAuthorityAlways == Report!Spec => Report!AuthorityAtCommit
<1>1. ReportInv /\ [Report!Next]_(Report!vars) =>
        [\A t \in Slots : Report!Commits(t) =>
           LET row == person[errand[t].actor] IN
           /\ row.accepted /\ ~Report!userSuspendedAt(row, today) /\ row.role = errand[t].role
           /\ errand[t].kind # "report" =>
                row.role \in Report!StaffRoles /\ ~Report!MutedAt(row, today)]_(Report!vars)
  BY ReportAuthority DEF Report!vars, reportVars
<1> QED BY <1>1, ReportInvariantly, PTL DEF Report!Spec, Report!AuthorityAtCommit

\* What a call found when its form was opened holds when it commits, for
\* publications, moderation, reports and discipline, and a reply finds its place.
THEOREM CommitsAreCurrentAlways == PartSpec => CommitsAreCurrent
<1> QED BY AuthorityAtCommitAlways, RepliesFindTheirPlaceAlways, ReportAuthorityAlways, PartsRun, PTL
        DEF CommitsAreCurrent

\* A report keeps its assignee, a finished one stays as it is, and its times
\* never go back, in whatever order the calls of several moderators commit.
THEOREM ReportMovesForwardAlways == Report!Spec => Report!ReportMovesForward
<1>1. ASSUME ReportInv, ReportShape, NEW r \in DOMAIN reports
      PROVE  /\ reports[r].status \in Report!FinalStatuses => reports'[r] = reports[r]
             /\ reports[r].assigned_to # Report!Nobody => reports'[r].assigned_to = reports[r].assigned_to
             /\ reports'[r].updated_at >= reports[r].updated_at
  <2>1. reports[r].updated_at \in Nat
    BY <1>1, ReportRow DEF ReportInv, Report!ReportRows
  <2>2. CASE reports'[r] = reports[r]
    BY <2>1, <2>2
  <2>3. ASSUME NEW t \in Slots, NEW x, AddsRow(t, x) PROVE reports'[r] = reports[r]
    BY <1>1, <2>3, RowsAfterAdding DEF ReportInv
  <2>4. ASSUME NEW t \in Slots, NEW q, NEW x, ChangesRow(t, q, x), reports'[r] # reports[r]
        PROVE  /\ reports[r].status \notin Report!FinalStatuses
               /\ reports[r].assigned_to # Report!Nobody => reports'[r].assigned_to = reports[r].assigned_to
               /\ reports'[r].updated_at >= reports[r].updated_at
    <3>1. q = r /\ reports'[r] = x
      BY <1>1, <2>4, RowsAfterChange, SMTT(30) DEF ReportInv
    <3> QED BY <2>4, <3>1 DEF ChangesRow, Report!ActiveStatuses, Report!FinalStatuses
  <2>5. \/ reports' = reports
        \/ \E t \in Slots : (\E x : AddsRow(t, x)) \/ (\E q, x : ChangesRow(t, q, x))
    BY <1>1 DEF ReportShape, reportVars, WorldChanges, StandingChanges, CallSteps, CallBegins, TakesRow,
                LeavesNothing, Counts, Disciplines
  <2> QED BY <2>2, <2>3, <2>4, <2>5
<1>2. ReportInv /\ [Report!Next]_(Report!vars) =>
        [\A r \in DOMAIN reports :
           /\ reports[r].status \in Report!FinalStatuses => reports'[r] = reports[r]
           /\ reports[r].assigned_to # Report!Nobody => reports'[r].assigned_to = reports[r].assigned_to
           /\ reports'[r].updated_at >= reports[r].updated_at]_(Report!vars)
  BY <1>1, ReportSteps DEF Report!vars, reportVars
<1> QED BY <1>2, ReportInvariantly, PTL DEF Report!Spec, Report!ReportMovesForward

\* A mute in force is never shortened: whoever mutes has compared with the clock
\* of its own call, which is not ahead of the board's.
THEOREM MutesOnlyGrowAlways == Report!Spec => Report!MutesOnlyGrow
<1>1. ASSUME ReportInv, ReportShape, NEW u \in Reporters, person'[u].muted_until # person[u].muted_until
      PROVE  person[u].muted_until <= today
  <2>1. ~\E v \in Reporters : \E x : StandingChanges(v, x)
    BY <1>1, SMTT(30) DEF ReportInv, Report!TypeOK, StandingChanges
  <2>2. PICK t \in Slots : \E x : Disciplines(t, x)
    BY <1>1, <2>1 DEF ReportShape, reportVars, WorldChanges, CallSteps, CallBegins, TakesRow, LeavesNothing,
                      Counts, AddsRow, ChangesRow
  <2>3. /\ errand[t].target = u /\ ~Report!MutedAt(person[u], errand[t].at)
        /\ CallStands(errand[t]) /\ errand[t] \in Report!Calls
    BY <1>1, <2>2, SlotCall DEF ReportInv, Report!TypeOK, Disciplines, CallEnds, CallsStand
  <2>4. errand[t].at \in Nat /\ today \in Nat /\ errand[t].at <= today
    BY <1>1, <2>3, CallFields, PartsAssumption
       DEF CallStands, ReportInv, Report!TypeOK, Report!ReportsAssumption
  <2>5. person[u].muted_until \in Nat
    <3>1. MuteDurations \in SUBSET Nat /\ IsFiniteSet(MuteDurations) /\ MuteDurations # {} /\ ReportTime \in Nat
      BY PartsAssumption, SameCardinality DEF Report!ReportsAssumption
    <3>2. Report!Max(MuteDurations) \in Nat
      BY <3>1, ReportMax
    <3>3. person[u].muted_until \in 0..ReportTime + Report!Max(MuteDurations)
      BY <1>1, PersonRow DEF ReportInv, Report!AccountRows
    <3> QED BY <3>1, <3>2, <3>3
  <2> QED BY <2>3, <2>4, <2>5 DEF Report!MutedAt
<1>2. ReportInv /\ [Report!Next]_(Report!vars) =>
        [\A u \in Reporters : person'[u].muted_until # person[u].muted_until =>
           person'[u].muted_until > Report!Max({today, person[u].muted_until})
             \/ person[u].muted_until <= today]_(Report!vars)
  BY <1>1, ReportSteps DEF Report!vars, reportVars
<1> QED BY <1>2, ReportInvariantly, PTL DEF Report!Spec, Report!MutesOnlyGrow

\* The staff's list of reports and the page of each report are served, whatever
\* order of transitions, with whatever clocks, led to the rows.
LEMMA PagesServed ==
    ASSUME ReportInv
    PROVE  Report!ReportPagesAreServed
<1> SUFFICES ASSUME NEW u \in Reporters, Report!activeStaffActor(u)
             PROVE  Report!list(u) /\ \A r \in DOMAIN reports : Report!detail(u, r)
  BY DEF Report!ReportPagesAreServed
<1>1. Report!PageActor(u, person[u].role, today)
  BY DEF Report!PageActor, Report!activeStaffActor, Report!Authenticated
<1>2. ASSUME NEW r \in DOMAIN reports PROVE Report!detail(u, r)
  BY <1>1 DEF Report!detail, Report!GetModerationReport, Report!GetReportForModeration, ReportInv, RowsAreServed
<1>3. ASSUME NEW r \in DOMAIN reports, reports[r].status \in Report!ActiveStatuses
      PROVE  Report!validActiveReportRow(reports[r])
  BY <1>3 DEF ReportInv, RowsAreServed, Report!validReportDetailRow, Report!ActiveStatuses, Report!FinalStatuses
<1> QED BY <1>2, <1>3 DEF Report!list, Report!ListModerationReports, Report!ListActiveReportsForModeration

=============================================================================
