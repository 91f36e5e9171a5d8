------------------------ MODULE ReportsAndDiscipline ------------------------
(***************************************************************************)
(* Reports, warnings and mutes.  Members report topics, posts and accounts *)
(* to the staff; staff claim a report, annotate it and finish it, and warn *)
(* and mute accounts.  Every call reads the clock and its session before   *)
(* its transaction begins, and may then wait for a row that another call   *)
(* holds: what it read is checked again against the locked row.            *)
(*                                                                         *)
(* A transaction is a record in task: at step "begin" it holds no lock, at *)
(* "first" the user row it locks first, at "counted" a report has also     *)
(* counted the active reports of its reporter.  What a transaction locks   *)
(* last it locks in the step that commits it.                              *)
(***************************************************************************)
EXTENDS Naturals, Sequences, FiniteSets, FiniteSetsExt

CONSTANTS
    Users,             \* account ids
    FirstRoles,        \* the role each account begins with
    Topics, Posts,     \* what may be reported, besides accounts
    PostTopic, PostAuthor,
    Slots,             \* slots for calls that run concurrently
    MaximumActiveReportsPerUser,
    MuteDurations,
    MaxTime, MaxReports   \* bounds

\* The ids of accounts are positive and every post has an author and a topic.
ReportsAssumption ==
    /\ IsFiniteSet(Users) /\ Users \subseteq Nat \ {0}
    /\ FirstRoles \in [Users -> {"member", "moderator", "administrator"}]
    /\ PostTopic \in [Posts -> Topics] /\ PostAuthor \in [Posts -> Users]
    /\ MaximumActiveReportsPerUser \in Nat \ {0}
    /\ IsFiniteSet(MuteDurations) /\ MuteDurations # {} /\ MuteDurations \subseteq Nat \ {0}
    /\ MaxTime \in Nat /\ MaxReports \in Nat

VARIABLES
    now,       \* the clock
    account,   \* rows of users
    visible,   \* who sees a topic and its posts: hidden, deleted, in a closed area
    deleted,   \* the posts that are deleted
    reports,   \* rows of reports, and the time of the last row of report_notes
    warned,    \* the accounts that have a row in user_warnings
    task       \* what each slot is doing

vars == <<now, account, visible, deleted, reports, warned, task>>

Targets == Topics \cup Posts \cup Users
StaffRoles == {"moderator", "administrator"}
Roles == {"member"} \cup StaffRoles
ActiveStatuses == {"open", "in_review"}
FinalStatuses == {"resolved", "dismissed"}
NullTime == MaxTime + 1   \* a timestamp that is NULL
Nobody == 0               \* an account that is NULL

AccountRows == [role : Roles, accepted : BOOLEAN, suspended_at : 0..NullTime,
                muted_until : 0..MaxTime + Max(MuteDurations)]
ReportRows == [by : Users, target : Targets, status : ActiveStatuses \cup FinalStatuses,
               assigned_to : Users \cup {Nobody}, resolved_by : Users \cup {Nobody},
               created_at : 0..MaxTime, updated_at : 0..MaxTime,
               resolved_at : 0..NullTime, noted_at : 0..NullTime]
Disciplines == {"warn", "mute"}
ReportActions == {"claim", "note", "resolve", "dismiss"}

Free == [kind |-> "free"]
Calls ==
    [kind : {"report"}, step : {"begin", "first", "counted"}, actor : Users, role : Roles,
     at : 0..MaxTime, target : Targets, count : 0..MaxReports]
    \cup [kind : ReportActions, step : {"begin", "first"}, actor : Users, role : StaffRoles,
          at : 0..MaxTime, report : 1..MaxReports]
    \cup [kind : {"warn"}, step : {"begin", "first"}, actor : Users, role : StaffRoles,
          at : 0..MaxTime, target : Users]
    \cup [kind : {"mute"}, step : {"begin", "first"}, actor : Users, role : StaffRoles,
          at : 0..MaxTime, target : Users, duration : MuteDurations]

TypeOK ==
    /\ now \in 0..MaxTime
    /\ account \in [Users -> AccountRows]
    /\ visible \in [Topics -> {"everyone", "staff", "nobody"}] /\ deleted \subseteq Posts
    /\ reports \in Seq(ReportRows) /\ Len(reports) <= MaxReports
    /\ warned \subseteq Users
    /\ task \in [Slots -> {Free} \cup Calls]

Init ==
    /\ now = 0
    /\ account = [u \in Users |-> [role |-> FirstRoles[u], accepted |-> TRUE,
                                   suspended_at |-> NullTime, muted_until |-> 0]]
    /\ visible = [x \in Topics |-> "everyone"] /\ deleted = {}
    /\ reports = <<>> /\ warned = {}
    /\ task = [t \in Slots |-> Free]

-----------------------------------------------------------------------------
(* The rows of users: who is in good standing, and who holds which row. *)

userSuspendedAt(row, at) == row.suspended_at <= at
MutedAt(row, at) == row.muted_until > at

\* What a transaction asks of the row that it has locked for its actor.
ReporterMatches(row, call) ==
    row.accepted /\ row.role = call.role /\ ~userSuspendedAt(row, call.at)

\* Mutation of the check: the state of the account's identity is not asked for.
StaffByClock(row, call) ==
    /\ row.role = call.role /\ row.role \in StaffRoles
    /\ ~userSuspendedAt(row, call.at) /\ ~MutedAt(row, call.at)

persistedStaffMatches(row, call) ==
    ReporterMatches(row, call) /\ row.role \in StaffRoles /\ ~MutedAt(row, call.at)

\* Mutation of the order: the actor's row comes before the target's.
ActorFirst(call) ==
    IF call.kind \in Disciplines THEN <<call.actor, call.target>> ELSE <<call.actor>>

\* The user rows a call locks FOR UPDATE, in order.
LockOrder(call) ==
    IF call.kind \in Disciplines
      THEN IF call.target < call.actor THEN <<call.target, call.actor>> ELSE <<call.actor, call.target>>
      ELSE <<call.actor>>

Held(t) == IF task[t] = Free \/ task[t].step = "begin" THEN {} ELSE {LockOrder(task[t])[1]}

\* The rows the next statement of a call needs.  The foreign key of a report
\* takes the row of the account that is reported FOR KEY SHARE.
Needed(t) ==
    CASE task[t] = Free -> {}
      [] task[t] # Free /\ task[t].step = "begin" -> {LockOrder(task[t])[1]}
      [] task[t] # Free /\ task[t].step = "first" ->
           IF task[t].kind \in Disciplines THEN {LockOrder(task[t])[2]} ELSE {}
      [] task[t] # Free /\ task[t].step = "counted" -> {task[t].target} \cap Users

WaitsFor(t, s) == t # s /\ Needed(t) \cap Held(s) # {}
Blocked(t) == \E s \in Slots : WaitsFor(t, s)

Begin(t, call) == task[t] = Free /\ task' = [task EXCEPT ![t] = call]
End(t) == task' = [task EXCEPT ![t] = Free]

\* An error, a refusal, a lock timeout, a deadlock's victim or a process that
\* stops: nothing of the transaction stays.
Rollback(t) ==
    /\ task[t] # Free /\ End(t)
    /\ UNCHANGED <<now, account, visible, deleted, reports, warned>>

-----------------------------------------------------------------------------
(* The handlers.  A session exists for accepted accounts alone. *)

Authenticated(u) == account[u].accepted /\ ~userSuspendedAt(account[u], now)
activeStaffActor(u) ==
    Authenticated(u) /\ account[u].role \in StaffRoles /\ ~MutedAt(account[u], now)

StartReport(t, u, x) ==
    /\ Authenticated(u)
    /\ Begin(t, [kind |-> "report", step |-> "begin", actor |-> u, role |-> account[u].role,
                 at |-> now, target |-> x, count |-> 0])
    /\ UNCHANGED <<now, account, visible, deleted, reports, warned>>

StartReportAction(t, u, kind, r) ==
    /\ activeStaffActor(u)
    /\ Begin(t, [kind |-> kind, step |-> "begin", actor |-> u, role |-> account[u].role,
                 at |-> now, report |-> r])
    /\ UNCHANGED <<now, account, visible, deleted, reports, warned>>

StartDiscipline(t, u, v, duration) ==
    /\ activeStaffActor(u) /\ u # v
    /\ \/ Begin(t, [kind |-> "warn", step |-> "begin", actor |-> u, role |-> account[u].role,
                    at |-> now, target |-> v])
       \/ Begin(t, [kind |-> "mute", step |-> "begin", actor |-> u, role |-> account[u].role,
                    at |-> now, target |-> v, duration |-> duration])
    /\ UNCHANGED <<now, account, visible, deleted, reports, warned>>

-----------------------------------------------------------------------------
(* The transactions. *)

\* Mutation of the statement: the user row is read without a lock.
ReadFirstUser(t) ==
    /\ task[t] # Free /\ task[t].step = "begin"
    /\ LET row == account[task[t].actor] IN
         IF task[t].kind = "report" THEN ReporterMatches(row, task[t])
         ELSE task[t].kind \in ReportActions => persistedStaffMatches(row, task[t])
    /\ task' = [task EXCEPT ![t].step = "first"]
    /\ UNCHANGED <<now, account, visible, deleted, reports, warned>>

\* A call that locks its actor alone checks it at once; a discipline checks
\* it when it has both rows.
LockUserForSuspension(t) ==
    /\ task[t] # Free /\ task[t].step = "begin" /\ ~Blocked(t)
    /\ LET row == account[task[t].actor] IN
         IF task[t].kind = "report" THEN ReporterMatches(row, task[t])
         ELSE task[t].kind \in ReportActions => persistedStaffMatches(row, task[t])
    /\ task' = [task EXCEPT ![t].step = "first"]
    /\ UNCHANGED <<now, account, visible, deleted, reports, warned>>

ActiveReportsOf(u) == {r \in DOMAIN reports : reports[r].by = u /\ reports[r].status \in ActiveStatuses}

CountActiveReportsByReporter(t) ==
    /\ task[t] # Free /\ task[t].kind = "report" /\ task[t].step = "first"
    /\ LET count == Cardinality(ActiveReportsOf(task[t].actor)) IN
         /\ count < MaximumActiveReportsPerUser
         /\ task' = [task EXCEPT ![t].step = "counted", ![t].count = count]
    /\ UNCHANGED <<now, account, visible, deleted, reports, warned>>

CanSee(role, x) == visible[x] = "everyone" \/ (visible[x] = "staff" /\ role \in StaffRoles)

\* What the three INSERT statements ask of their target.
CreateTopicReport(call) == call.target \in Topics /\ CanSee(call.role, call.target)
CreatePostReport(call) ==
    call.target \in Posts \ deleted /\ CanSee(call.role, PostTopic[call.target])
CreateUserReport(call) ==
    /\ call.target \in Users \ {call.actor}
    /\ \E p \in Posts \ deleted : PostAuthor[p] = call.target /\ CanSee(call.role, PostTopic[p])

\* reports_open_*_reporter_unique
ActiveDuplicate(u, x) == \E r \in ActiveReportsOf(u) : reports[r].target = x

CreateReport(t) ==
    /\ task[t] # Free /\ task[t].kind = "report" /\ task[t].step = "counted" /\ ~Blocked(t)
    /\ Len(reports) < MaxReports
    /\ CreateTopicReport(task[t]) \/ CreatePostReport(task[t]) \/ CreateUserReport(task[t])
    /\ ~ActiveDuplicate(task[t].actor, task[t].target)
    /\ reports' = Append(reports,
         [by |-> task[t].actor, target |-> task[t].target, status |-> "open", assigned_to |-> Nobody,
          resolved_by |-> Nobody, created_at |-> task[t].at, updated_at |-> task[t].at,
          resolved_at |-> NullTime, noted_at |-> NullTime])
    /\ End(t)
    /\ UNCHANGED <<now, account, visible, deleted, warned>>

\* Mutation of the transition: the time is the one the call began with.
LockReportAtOwnTime(t) == task[t].at

\* The time a transition writes: never before the row's last one.
LockReportForModeration(t) == Max({task[t].at, reports[task[t].report].updated_at})

ClaimReportAndAudit(t) ==
    /\ reports[task[t].report].status = "open" /\ reports[task[t].report].assigned_to = Nobody
    /\ reports' = [reports EXCEPT ![task[t].report].status = "in_review",
                                  ![task[t].report].assigned_to = task[t].actor,
                                  ![task[t].report].updated_at = LockReportForModeration(t)]

\* The assignee works on a report, or an administrator does.
MayFinish(report, u, role) ==
    /\ report.status = "in_review" /\ report.assigned_to # Nobody
    /\ report.assigned_to = u \/ role = "administrator"

AddReportNoteAndAudit(t) ==
    reports' = [reports EXCEPT ![task[t].report].noted_at = LockReportForModeration(t)]

\* Mutation of the end: the resolver is not written.
FinishUnsigned(t, status) ==
    reports' = [reports EXCEPT ![task[t].report].status = status]

FinishReportAndAudit(t, status) ==
    LET at == LockReportForModeration(t) IN
    reports' = [reports EXCEPT ![task[t].report].status = status,
                               ![task[t].report].resolved_by = task[t].actor,
                               ![task[t].report].resolved_at = at,
                               ![task[t].report].updated_at = at]

ProcessReport(t) ==
    /\ task[t] # Free /\ task[t].kind \in ReportActions /\ task[t].step = "first"
    /\ \/ task[t].kind = "claim" /\ ClaimReportAndAudit(t)
       \/ /\ MayFinish(reports[task[t].report], task[t].actor, task[t].role)
          /\ \/ task[t].kind = "note" /\ AddReportNoteAndAudit(t)
             \/ task[t].kind = "resolve" /\ FinishReportAndAudit(t, "resolved")
             \/ task[t].kind = "dismiss" /\ FinishReportAndAudit(t, "dismissed")
    /\ End(t)
    /\ UNCHANGED <<now, account, visible, deleted, warned>>

\* Mutation of the statement: a mute in force is replaced.
ReplaceMute(t) ==
    account' = [account EXCEPT ![task[t].target].muted_until = task[t].at + task[t].duration]

\* A mute cannot be lifted or replaced while it is in force; it ends by itself.
MuteUserAndAudit(t) ==
    /\ ~MutedAt(account[task[t].target], task[t].at)
    /\ account' = [account EXCEPT ![task[t].target].muted_until = task[t].at + task[t].duration]

WarnUserAndAudit(t) == warned' = warned \cup {task[t].target}

\* Both rows are locked: the actor is still staff, and outranks the target.
applyUserAction(t) ==
    /\ task[t] # Free /\ task[t].kind \in Disciplines /\ task[t].step = "first" /\ ~Blocked(t)
    /\ persistedStaffMatches(account[task[t].actor], task[t])
    /\ task[t].role = "moderator" => account[task[t].target].role = "member"
    /\ \/ task[t].kind = "warn" /\ WarnUserAndAudit(t) /\ UNCHANGED account
       \/ task[t].kind = "mute" /\ MuteUserAndAudit(t) /\ UNCHANGED warned
    /\ End(t)
    /\ UNCHANGED <<now, visible, deleted, reports>>

-----------------------------------------------------------------------------
(* Around them: time, suspensions, roles, and what is hidden or deleted. *)

Tick ==
    /\ now < MaxTime /\ now' = now + 1
    /\ UNCHANGED <<account, visible, deleted, reports, warned, task>>

Unlocked(u) == \A t \in Slots : u \notin Held(t)

\* Its own transaction, whose clock may be ahead of a call that waits.
SuspendUser(u) ==
    /\ Unlocked(u) /\ account[u].accepted
    /\ account' = [account EXCEPT ![u].accepted = FALSE, ![u].suspended_at = now]
    /\ UNCHANGED <<now, visible, deleted, reports, warned, task>>

ReinstateUser(u) ==
    /\ Unlocked(u) /\ ~account[u].accepted
    /\ account' = [account EXCEPT ![u].accepted = TRUE, ![u].suspended_at = NullTime]
    /\ UNCHANGED <<now, visible, deleted, reports, warned, task>>

ChangeRole(u, role) ==
    /\ Unlocked(u) /\ account[u].role # role
    /\ account' = [account EXCEPT ![u].role = role]
    /\ UNCHANGED <<now, visible, deleted, reports, warned, task>>

ChangeVisibility(x, v) ==
    /\ visible[x] # v
    /\ visible' = [visible EXCEPT ![x] = v]
    /\ UNCHANGED <<now, account, deleted, reports, warned, task>>

DeletePost(p) ==
    /\ p \notin deleted /\ deleted' = deleted \cup {p}
    /\ UNCHANGED <<now, account, visible, reports, warned, task>>

Next ==
    \/ Tick
    \/ \E u \in Users : SuspendUser(u) \/ ReinstateUser(u) \/ \E r \in Roles : ChangeRole(u, r)
    \/ \E p \in Posts : DeletePost(p)
    \/ \E x \in Topics, v \in {"everyone", "staff", "nobody"} : ChangeVisibility(x, v)
    \/ \E t \in Slots :
         \/ \E u \in Users, x \in Targets : StartReport(t, u, x)
         \/ \E u \in Users, kind \in ReportActions, r \in DOMAIN reports : StartReportAction(t, u, kind, r)
         \/ \E u, v \in Users, duration \in MuteDurations : StartDiscipline(t, u, v, duration)
         \/ LockUserForSuspension(t) \/ CountActiveReportsByReporter(t) \/ CreateReport(t)
         \/ ProcessReport(t) \/ applyUserAction(t)
         \/ Rollback(t)

Spec == Init /\ [][Next]_vars

-----------------------------------------------------------------------------
(* The pages of the staff.  They answer 503 for a row whose shape they do not *)
(* expect.                                                                    *)

\* The statements of the pages authorise with the actor's current row.
PageActor(u, role, at) ==
    LET row == account[u] IN
    row.accepted /\ row.role = role /\ role \in StaffRoles /\ ~userSuspendedAt(row, at) /\ ~MutedAt(row, at)

ListActiveReportsForModeration(u, role, at) ==
    {r \in DOMAIN reports : reports[r].status \in ActiveStatuses /\ PageActor(u, role, at)}

GetReportForModeration(u, role, at) == {r \in DOMAIN reports : PageActor(u, role, at)}

validActiveReportRow(report) ==
    \/ report.status = "open" /\ report.assigned_to = Nobody
    \/ report.status = "in_review" /\ report.assigned_to # Nobody

validReportDetailRow(report) ==
    /\ report.updated_at >= report.created_at
    /\ \/ /\ validActiveReportRow(report)
          /\ report.resolved_by = Nobody /\ report.resolved_at = NullTime
       \/ /\ report.status \in FinalStatuses
          /\ report.assigned_to # Nobody /\ report.resolved_by # Nobody /\ report.resolved_at # NullTime

ListModerationReports(u, role, at) ==
    \A r \in ListActiveReportsForModeration(u, role, at) : validActiveReportRow(reports[r])

GetModerationReport(u, role, r, at) ==
    r \in GetReportForModeration(u, role, at) /\ validReportDetailRow(reports[r])

\* What the handler asks besides: the times of the end and of the notes.
validModerationReportDetail(report) ==
    /\ report.status \in FinalStatuses => report.resolved_at >= report.created_at
    /\ report.noted_at >= report.created_at

\* The handlers of the two pages, when they answer with the page.
list(u) == activeStaffActor(u) /\ ListModerationReports(u, account[u].role, now)
detail(u, r) ==
    /\ activeStaffActor(u) /\ GetModerationReport(u, account[u].role, r, now)
    /\ validModerationReportDetail(reports[r])

-----------------------------------------------------------------------------
(* Properties. *)

\* However many reports of one account are submitted at once, it never has
\* more active ones than the cap, and never two for one target, not even after
\* the first was claimed.
ActiveReportsAreBounded ==
    \A u \in Users :
      /\ Cardinality(ActiveReportsOf(u)) <= MaximumActiveReportsPerUser
      /\ \A r, s \in ActiveReportsOf(u) : reports[r].target = reports[s].target => r = s

\* A report keeps the assignee that claimed it, and a finished one stays as it
\* is: two moderators never both work on one report, in whatever order their
\* claims and decisions arrive, and its times never go back.
ReportMovesForward ==
    [][\A r \in DOMAIN reports :
         /\ reports[r].status \in FinalStatuses => reports'[r] = reports[r]
         /\ reports[r].assigned_to # Nobody => reports'[r].assigned_to = reports[r].assigned_to
         /\ reports'[r].updated_at >= reports[r].updated_at]_vars

\* Whatever calls with older clocks have done to a report, the list and its own
\* page show it: no order of transitions leaves a row that they refuse.
ReportPagesAreServed ==
    \A u \in Users : activeStaffActor(u) => list(u) /\ \A r \in DOMAIN reports : detail(u, r)

Commits(t) == task[t] # Free /\ task'[t] = Free /\ <<account, reports, warned>>' # <<account, reports, warned>>

\* At its commit a call's actor is accepted, not suspended and in the role of
\* its session, and whoever moderates is staff that is not muted, although a
\* call that waited compares rows with a clock that is behind.
AuthorityAtCommit ==
    [][\A t \in Slots : Commits(t) =>
         LET row == account[task[t].actor] IN
         /\ row.accepted /\ ~userSuspendedAt(row, now) /\ row.role = task[t].role
         /\ task[t].kind # "report" => row.role \in StaffRoles /\ ~MutedAt(row, now)]_vars

\* No two moderators shorten a mute between them.
MutesOnlyGrow ==
    [][\A u \in Users : account'[u].muted_until # account[u].muted_until =>
         account'[u].muted_until > Max({now, account[u].muted_until})
           \/ account[u].muted_until <= now]_vars

\* Calls that discipline or moderate do not deadlock among themselves, however
\* many there are.  The report of an account can: its foreign key asks for a row
\* out of order.
CyclesNeedAnAccountReport ==
    \A ring \in (SUBSET Slots) \ {{}} :
        (\A t \in ring : \E s \in ring : WaitsFor(t, s)) =>
            \E w \in ring : task[w].kind = "report" /\ task[w].target \in Users

=============================================================================
