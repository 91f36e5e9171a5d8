--------------------------- MODULE MCForumServices ---------------------------
(***************************************************************************)
(* The services of the forum on small instances: the discussion, reports   *)
(* and discipline, what is read and marked read, search and activity.      *)
(* Their models share no state, so that in one behaviour only one of them  *)
(* moves: part says which.  The others keep their initial state.           *)
(***************************************************************************)
EXTENDS Discussion, TLC

CONSTANTS
    \* Discussion
    user1, staff1,
    \* ReportsAndDiscipline
    Reporters, ReporterRoles, ReportedTopics, ReportedPosts, ReportedPostTopic, ReportedPostAuthor,
    ReportLimit, MuteDurations, ReportTime, ReportsKept, topicX, postX,
    \* Reading
    Members, ReadStaff, visitor, ReadAreas, ReadTopics, ReadTopicArea, ReadTopicAuthor,
    PostPageSize, MaximumPostPage, EntriesKept, reader, moderator, areaX, t1,
    \* Discovery
    Subjects, Writers, MaxWords, SearchPageSize, SearchWindow, ActivityPageSize,
    Keys, NotBefore, IssueNotAfter, MaximumAge, FutureSkew, SearchTime, ArticlesKept

VARIABLES
    part,
    \* ReportsAndDiscipline
    today, person, visible, deleted, reports, warned, errand,
    \* Reading
    area, topic, entries, marker, call,
    \* Discovery
    clock, behind, visibility, subject, articles, authority, ring, walk, stayed

\* Values of constants that are functions.
AdministratorAndModerator == <<"administrator", "moderator">>
PostIsOfTheTopic == (postX :> topicX)
PostIsOfTheModerator == (postX :> 2)
TopicIsInTheArea == (t1 :> areaX)
TopicIsOfTheModerator == (t1 :> moderator)
KeysFrom == <<0, 1>>
KeysUntil == <<0, 4>>

Report == INSTANCE ReportsAndDiscipline
    WITH Users <- Reporters, FirstRoles <- ReporterRoles, Topics <- ReportedTopics, Posts <- ReportedPosts,
         PostTopic <- ReportedPostTopic, PostAuthor <- ReportedPostAuthor,
         MaximumActiveReportsPerUser <- ReportLimit, MaxTime <- ReportTime, MaxReports <- ReportsKept,
         now <- today, account <- person, task <- errand
Read == INSTANCE Reading
    WITH Staff <- ReadStaff, Visitor <- visitor,
         Areas <- ReadAreas, Topics <- ReadTopics, TopicArea <- ReadTopicArea, TopicAuthor <- ReadTopicAuthor,
         MaxPosts <- EntriesKept, posts <- entries
Discover == INSTANCE Discovery
    WITH Topics <- Subjects, Authors <- Writers, MaxTime <- SearchTime, MaxPosts <- ArticlesKept,
         topic <- subject, posts <- articles

\* What the other modules ask of their constants.
ASSUME PartsAssumption ==
    /\ Report!ReportsAssumption
    /\ Read!ReadingAssumption
    /\ Discover!DiscoveryAssumption

reportVars == <<today, person, visible, deleted, reports, warned, errand>>
readVars == <<area, topic, entries, marker, call>>
discoverVars == <<clock, behind, visibility, subject, articles, authority, ring, walk, stayed>>
partVars == <<part, vars, reportVars, readVars, discoverVars>>

PartInit ==
    /\ part \in {"discuss", "report", "read", "discover"}
    /\ Init /\ Report!Init /\ Read!Init /\ Discover!Init
    /\ part # "discover" => authority = "visitor"

PartNext ==
    \/ part = "discuss" /\ Next /\ UNCHANGED <<part, reportVars, readVars, discoverVars>>
    \/ part = "report" /\ Report!Next /\ UNCHANGED <<part, vars, readVars, discoverVars>>
    \/ part = "read" /\ Read!Next /\ UNCHANGED <<part, vars, reportVars, discoverVars>>
    \/ part = "discover" /\ Discover!Next /\ UNCHANGED <<part, vars, reportVars, readVars>>

PartSpec == PartInit /\ [][PartNext]_partVars

PartSymmetry == Permutations(Slots) \cup Permutations(Areas)

-----------------------------------------------------------------------------
(* Bounds. *)

CONSTANT MaxDisturbances   \* bound on what is out of the ordinary in a discussion at once

\* Barred and demoted accounts, closed areas, topics that are not open, and
\* deleted and edited posts; a pinned topic counts for two.
Disturbances ==
    Cardinality({v \in Users : account[v].barred})
      + Cardinality({v \in Staff : ~account[v].staff})
      + Cardinality({b \in Areas : mode[b] # "normal"})
      + Cardinality({k \in DOMAIN topics : topics[k].state # "open"})
      + 2 * Cardinality({k \in DOMAIN topics : topics[k].pinned})
      + Cardinality({q \in DOMAIN posts : posts[q].deleted})
      + Cardinality({q \in DOMAIN posts : posts[q].revision > 1})

Publishing == \A t \in Slots : task[t].kind \in {"free", "topic", "reply"}

\* Nobody is promoted, one moderator acts at a time, two calls run with one less
\* of them and with room for a post, and either the clock has moved, with
\* publications alone, or the rest may happen.
FewDisturbances ==
    LET clockMoved == now > 0 \/ \E q \in DOMAIN posts : posts[q].at > 0
        two == \A t \in Slots : task[t].kind # "free"
        few == IF clockMoved THEN 0 ELSE IF two THEN MaxDisturbances - 1 ELSE MaxDisturbances
    IN /\ clockMoved => Publishing
       /\ two => Len(posts) < MaxPosts
       /\ Cardinality({t \in Slots : task[t].kind \in Moderation}) <= 1
       /\ \A v \in Users : account[v].staff => v \in Staff
       /\ Disturbances <= few

Errands == {errand[t].kind : t \in Slots} \ {"free"}
Incidents ==
    Cardinality({v \in Reporters : person[v].role # ReporterRoles[v]})
      + Cardinality({v \in Reporters : ~person[v].accepted})
      + Cardinality({v \in Reporters : person[v].muted_until > 0})
      + (IF visible[topicX] = "everyone" THEN 0 ELSE 1)
      + Cardinality(deleted) + Cardinality(warned)
      + Cardinality({r \in DOMAIN reports : reports[r].noted_at # Report!NullTime})

\* One report, or a second one with which all rests.  One incident at a time,
\* which does not meet a report that is already there except in work on it,
\* before it is finished; none while two calls run.  The clock moves between two
\* calls only when both work on a report, which is then one of the topic.
FewIncidents ==
    LET n == Incidents
        onReports == Errands \subseteq Report!ReportActions
        two == \A t \in Slots : errand[t].kind # "free"
    IN /\ Len(reports) <= 2
       /\ Len(reports) = 2 => Errands = {} /\ n = 0
       /\ two => /\ today = 0 \/ onReports
                 /\ reports = <<>> \/ onReports \/ "mute" \in Errands
                 /\ reports # <<>> /\ onReports => reports[1].target = topicX
       /\ n <= IF two THEN 0 ELSE 1
       /\ n = 1 => reports = <<>> \/ onReports
       /\ n = 1 /\ Errands # {} => \A r \in DOMAIN reports : reports[r].status \notin Report!FinalStatuses

Marking == {c \in Slots : call[c].step \in {"begin", "selected", "upserted"}}
Marked == {c \in Slots : call[c].step \in {"ok", "refused"}}
Closed == area[areaX].visibility # "public" \/ topic[t1] # "open"

\* Members mark topics read while posts come and go; an area or a topic closes
\* only while nobody does.
FewClosures ==
    /\ area[areaX].visibility # "public" => topic[t1] = "open"
    /\ Marking \cup Marked # {} => ~Closed
    /\ Cardinality(Marked) <= 1
    /\ \A c \in Marking \cup Marked : call[c].user = reader
    /\ Marking \cup Marked # {} => Cardinality({q \in DOMAIN entries : entries[q].deleted}) <= 1

SubjectsPresent == {t \in Subjects : subject[t] # Discover!Absent}
Words ==
    {<<"topic", t, subject[t].words>> : t \in SubjectsPresent}
      \cup {<<"post", p, articles[p].words>> : p \in DOMAIN articles}
Strong == {w \in Words : w[3] > 1}
Authored == \E p \in DOMAIN articles : articles[p].author # 1
Searched == Authored \/ subject[2] # Discover!Absent \/ \E w \in Words : w[3] > 0
FirstRing == ring = [active |-> 1, previous |-> Discover!NoKey]
Quiet == walk = Discover!NoWalk /\ FirstRing /\ ~behind
Restricted == {t \in Subjects : visibility[t] # "public" \/ (t \in SubjectsPresent /\ subject[t].state # "open")}
Unshown == {p \in DOMAIN articles : articles[p].state # "shown"}
Changed == {p \in DOMAIN articles : articles[p].updated_at # articles[p].at}
Unusual == Cardinality(Restricted) + Cardinality(Unshown) + Cardinality(Changed)

\* Rows are searched at rest, changed posts are opened at rest, and a walk goes
\* through one topic: either its posts and its area change, or the clock and
\* the keys do.
FewRows ==
    /\ authority \in {"visitor", "member"}
    /\ articles # <<>> => articles[1].author = 1
    /\ Unusual <= (IF walk = Discover!NoWalk THEN 1 ELSE 2)
    /\ Strong # {} => Cardinality(Strong) + Unusual <= 1 /\ ~Authored
    /\ Authored => Unusual = 0
    /\ IF Searched
         THEN /\ Quiet /\ clock <= 1 /\ authority = "visitor" /\ 1 \in SubjectsPresent
              /\ Changed = {} /\ Restricted \subseteq {1} /\ visibility[1] # "authenticated"
              /\ Unshown # {} => \A p \in DOMAIN articles : articles[p].at = 0
       ELSE IF Changed # {} THEN walk = Discover!NoWalk /\ ring.active = 1 /\ authority = "visitor"
       ELSE /\ clock > 1 \/ behind \/ ~FirstRing => Unusual = 0 /\ authority = "visitor"
            /\ Restricted # {} => /\ Restricted = {1} /\ 1 \in SubjectsPresent
                                  /\ visibility[1] = "authenticated" /\ subject[1].state = "open"

PartBounds ==
    CASE part = "discuss" -> FewDisturbances
      [] part = "report" -> FewIncidents
      [] part = "read" -> FewClosures
      [] part = "discover" -> FewRows

\* The runs of PartSpec that stay within the bounds.
BoundedInit == PartInit /\ PartBounds
BoundedNext ==
    \/ part = "discuss" /\ PartNext /\ PartBounds'
    \/ part = "report" /\ PartNext /\ PartBounds'
    \/ part = "read" /\ PartNext /\ PartBounds'
    \/ part = "discover" /\ PartNext /\ PartBounds'
BoundedSpec == BoundedInit /\ [][BoundedNext]_partVars

-----------------------------------------------------------------------------
(* The properties of the four modules, gathered by what they are about.  Each *)
(* speaks of the part that moves.                                             *)

PartTypeOK ==
    CASE part = "discuss" -> TypeOK
      [] part = "report" -> Report!TypeOK
      [] part = "read" -> Read!TypeOK
      [] part = "discover" -> Discover!TypeOK

\* Counts that are read before they are written: publications in a window of
\* time, and active reports of an account, however many calls run at once.
LimitsHold ==
    /\ part = "discuss" => WindowLimit
    /\ part = "report" => Report!ActiveReportsAreBounded

\* ReportsAndDiscipline: moderators deadlock with reports of accounts only.
CyclesNeedAnAccountReport == part = "report" => Report!CyclesNeedAnAccountReport

\* The pages serve every row that calls can leave, and agree with each other: a
\* report's page, the index, the lists, the topics, the page of the latest and
\* of the first unread post; a finished mark covers what the reader saw.  The
\* pages do not depend on calls, which may be rolled back at any time, so that
\* the states without a call have every row there can be.  A search finds what
\* it should, every link leads to a post, a walk through the activity shows all.
ReadersAgree ==
    /\ part = "report" /\ (\A t \in Slots : errand[t] = Report!Free) => Report!ReportPagesAreServed
    /\ part = "read" => Read!MarksReachWhatTheySaw
    /\ part = "read" /\ (\A c \in Slots : call[c] = Read!Free) =>
         /\ Read!ReadRowsAreWellFormed
         /\ Read!FirstUnreadIsOnItsPage
         /\ Read!ListsAgree
         /\ Read!LatestPostIsOnItsPage
    /\ part = "discover" =>
         /\ Quiet /\ clock = 1 /\ authority = "visitor" => Discover!SearchIsExact
         /\ walk = Discover!NoWalk => Discover!LinksAreServed
         /\ Discover!WalkShowsEverything

\* What a call found when its form was opened holds when it commits: accounts
\* may still write, report or moderate, and a reply finds its place.
CommitsAreCurrent ==
    /\ AuthorityAtCommit
    /\ RepliesFindTheirPlace
    /\ Report!AuthorityAtCommit

\* No late call takes back what others did: an edit, a redaction, a report's
\* progress, a mute in force, a marker of what was read, a cursor that was given.
NothingGoesBack ==
    /\ NoLostEdit
    /\ RedactionIsFinal
    /\ Report!ReportMovesForward
    /\ Report!MutesOnlyGrow
    /\ Read!MarkerOnlyRises
    /\ Discover!CursorIsHonoured
=============================================================================
