\* Discussion: one topic, three posts, two calls at a time, and at most two
\* things out of the ordinary.
CONSTANTS
    user1 = user1  staff1 = staff1
    Users = {user1, staff1}
    Staff = {staff1}
    Areas = {area1, area2}
    Slots = {s1, s2}
    PublicationWindow = 2
    NewAccountPeriod = 1
    NewAccountLimit = 1
    PublicationLimit = 2
    MaximumReplyDepth = 2
    MaxTime = 2
    MaxTopics = 1
    MaxPosts = 3
    MaxRevision = 3
    MaxDisturbances = 2
\* Reports: an administrator and a moderator, a topic with a post of the latter.
    topicX = topicX  postX = postX
    Reporters = {1, 2}
    ReporterRoles <- AdministratorAndModerator
    ReportedTopics = {topicX}
    ReportedPosts = {postX}
    ReportedPostTopic <- PostIsOfTheTopic
    ReportedPostAuthor <- PostIsOfTheModerator
    ReportLimit = 1
    MuteDurations = {1, 2}
    ReportTime = 1
    ReportsKept = 2
\* Reading: a member, a moderator and a visitor, a topic with up to three posts.
    reader = reader  moderator = moderator  visitor = visitor
    areaX = areaX  t1 = topic1
    Members = {reader}
    ReadStaff = {moderator}
    ReadAreas = {areaX}
    ReadTopics = {topic1}
    ReadTopicArea <- TopicIsInTheArea
    ReadTopicAuthor <- TopicIsOfTheModerator
    PostPageSize = 1
    MaximumPostPage = 2
    EntriesKept = 3
\* Discovery: two topics, two authors, pages of one row, two keys.
    Subjects = {1, 2}
    Writers = {1, 2}
    MaxWords = 2
    SearchPageSize = 1
    SearchWindow = 2
    ActivityPageSize = 1
    Keys = {1, 2}
    NotBefore <- KeysFrom
    IssueNotAfter <- KeysUntil
    MaximumAge = 2
    FutureSkew = 1
    SearchTime = 4
    ArticlesKept = 3
SPECIFICATION BoundedSpec
SYMMETRY PartSymmetry
INVARIANTS
    PartTypeOK ThreadIsConsistent LimitsHold CyclesNeedAnAccountReport ReadersAgree
PROPERTIES
    CommitsAreCurrent NothingGoesBack
CHECK_DEADLOCK FALSE
