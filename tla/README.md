# GOTTH Board in TLA+

GOTTH Board is a forum: one Go process (a modular monolith that renders HTML),
one PostgreSQL database, and Authentik, which holds the identities, their groups
and the registration invitations.  Nothing in the process is worth modelling
alone; what is hard is that several requests, a periodic worker, an operator's
commands and Authentik change the same accounts, topics and sessions, with short
transactions and with remote calls that no transaction covers.  These modules
model that, module by module, translated from the Go code and from the SQL it
runs.  TLC checks them on small instances and TLAPS proves the most important
invariants for every instance.

- [The system](#the-system)
- [Modules and the code](#modules-and-the-code)
- [Conventions of the models](#conventions-of-the-models)
- [Runs](#runs)
- [Fairness](#fairness)
- [Proofs](#proofs)
- [Where code and documents disagree](#where-code-and-documents-disagree)
- [Not modelled](#not-modelled)
- [Plan](#plan)

## The system

Everything that lasts is a row in PostgreSQL or an object in Authentik.  A
request handler authenticates its session, checks the account it finds there,
opens one READ COMMITTED transaction (`store/transaction.go`) with short
statement and lock timeouts, locks rows, checks again, writes the change and its
audit record in one statement, and commits.  Three subsystems also call
Authentik between two such transactions.

| Component | State | Operations | Interacts through |
|---|---|---|---|
| Identity reconciliation | suspension, sync state and revision of an account; the Authentik groups of its identity | suspend, reinstate, reconcile by hand, expiry worker | users row, sessions, Authentik groups |
| Registration by approval | registration row (status, revision, request id) | intake, adoption, approve, reject | Authentik groups, the login gate |
| Registration invitations | invitation row (state, revision) | create, adopt, mail, list, revoke | Authentik invitations, SMTP |
| Governance | roles, memberships, the setup's audit row, the governance row | bootstrap command, setup page, role change, suspension, membership | users rows, sessions |
| Sessions and login | login attempts, sessions | sign-in, callback, revalidation with rotation, touch, sign-out, revocations | users row, Authentik's token exchange |
| Discussion | topics, posts, publication windows | publish, reply, edit, delete, lock, hide, move, redact | users, areas, topics and posts rows |
| Reports | reports and notes | report, claim, note, resolve, dismiss | reporter's and report's rows |
| User discipline | mutes, warnings | mute, unmute, warn | users row, Discussion |
| Areas and groups | areas, groups, memberships | create, update, archive, grant | Discussion, every read |
| Unread state | one marker per account and topic | mark read, first unread | post numbers |
| Control, site and SMTP settings | three singletons with a revision | update, apply to Authentik, test | registration mode, maintenance, mail |
| Request limiter | fixed windows per client address, in memory | admit | every request |
| Renderer and search migrations | a cursor per migration | run one batch, complete | posts and topics of a stopped release |
| Schema migration | the ledger | apply, verify | runs before the application |
| Reading | none | board index, lists, topic pages, latest and first unread post | snapshots of the above |
| Discovery | none but the ring of signing keys | search, activity pages, the page of a post | snapshots of the above |
| The release | a state row per conversion, the ledger | stop, migrate (preflight, apply, convert), start | the three migrations below it |

### What is hard, and what correct means

**Identity reconciliation.**  Two systems share no transaction: the board commits
what it wants, calls Authentik three times, reads back, and commits what came of
it.  In between other moderators, the worker and crashes come by.  Correct: a
denial holds from its first commit, whatever the remote calls do; access comes
back only after Authentik was seen to agree; a late completion is never taken for
the completion of another intent; an expired suspension is lifted in the end; the
last administrator is never suspended.

**Registration.**  The same three phases, but the row remembers the id of the
request instead of its holder.  Correct: nobody has an account whose registration
was not approved; a decision that is complete is what Authentik holds; no lost,
doubled or late call reverses a decision; a committed intent ends in its decision.

**Invitations.**  The remote object can be consumed at any time, and a form can be
submitted again while it runs.  Correct: what is called revoked was deleted by the
board; no token is mailed or shown twice; a terminal row stays terminal; a
revocation that is asked for again ends.

**Governance.**  Deadlock and write skew between forms that involve two accounts
each, and a setup that must succeed once.  Correct: at most one setup; always an
active administrator after it; no ring of transactions that wait; a form commits
only on the authority and the revision its page showed.

**Sessions.**  Callbacks are delivered twice, revalidations of one browser overlap,
and each statement uses a clock that was read before the locks.  Correct: one
session for an attempt and one live session for a sign-in; no session survives a
role change by form or a suspension; what was signed out does not come back.

**Discussion.**  A reply takes four locks, an edit two of the same in the opposite
order, and a publication charges a window that another publication of the account
may be charging.  The database's clock may step back.  Correct: numbers, counters
and pointers of a topic agree; chronology and windows survive the clock; who
publishes or moderates may do so at the commit; no edit is lost; a redaction is
final.

**Reports and discipline.**  A cap on active reports under concurrent reports, one
claim of each report, mutes that are in force and must not be shortened; every call
reads the clock before it waits for a row.  Correct: the cap and the uniqueness of a
report hold; a report only moves forward; the staff's pages show whatever rows result.

**Areas and groups.**  A page is put together from two statements without a common
snapshot, and its form comes back later.  Correct: an area that is open to groups
always has one; nobody changes what its page did not show; the audit trail tells the
row; a list that is followed to its end has left nothing out.

**Reading, unread state, discovery.**  The same rule of visibility and the same order
of threads are written in many statements, and a cursor outlives the state it was made
in.  Correct: they agree; a marker only rises and covers what its reader saw; a walk
through the activity shows every post once.

**Operations.**  Conversions and the schema migrator go on after crashes and unknown
commits; the mail transport's settings reach Authentik before the commit that records
them; the request limiter is bounded.  Correct: nothing applied twice, nothing skipped,
nothing declared complete too early; registration opens only on what a test verified;
no window that is enforced is lost.

`PROJECT.json` lists the hazards at their lines.

## Modules and the code

`PROJECT.json` maps every definition to its lines.

| Module | Code |
|---|---|
| `IdentityReconciliation` | `registration/suspension.go`, `registration/expiry_reconciliation.go`, `moderation/user_suspension.go`, `queries/identity_reconciliation.sql`, `queries/moderation.sql` |
| `BoardAccess` | abstract: what the former promises about access |
| `RegistrationDecision` | `registration/decision.go`, `adoption.go`, `intake.go`, `queries/registration.sql`, the login gate in `auth` |
| `Invitations` | `registration/invitation.go`, `queries/registration.sql` |
| `Governance` | `governance/bootstrap.go`, `governance/setup.go`, `administration/account.go`, `moderation/user_suspension.go` |
| `AreasAndGroups` | `administration/completion.go`, its queries, the triggers of the migrations, the lists of `administration` |
| `Sessions` | `auth/*`, `administration/session.go`, `queries/foundation.sql`, `queries/auth.sql` |
| `Discussion` | `forum/publish.go`, `edit.go`, `delete.go`, `moderation/extended_actions.go`, `topic_transition.go`, `abuse/publication.go`, `queries/publishing.sql`, `queries/editing.sql` |
| `ReportsAndDiscipline` | `moderation/reports.go`, `extended_actions.go`, their queries and handlers |
| `Reading` | the statements of the index, areas, topics, posts and unread state, and the handlers that take their rows |
| `Discovery` | `discovery/*`, its statements, the cursor's keys |
| `SchemaMigration` | `migration/*`, the probe of a serving process |
| `Conversion` | abstract: what a conversion of stored rows promises |
| `RendererMigration`, `SearchProjection`, `ReleaseCommand` | `rerender/*`, `searchprojection/*`, `cmd/migrate/main.go`; each EXTENDS the one before |
| `RequestLimiter` | `abuse/request_limiter.go` and its middleware |
| `ControlPlane` | `control/mutation.go`, `administration/smtp.go`, `administration/email.go` |
| `MC...` | instances for TLC: model values, symmetry, constraints |
| `...Proofs` | the theorems about the module of that name; `GovernanceProofs`, `RemoteConvergenceProofs`, `ForumServicesProofs` and `OperationsProofs` also about the MC module of that name and the modules it is made of; `ForumReadersProofs` continues `ForumServicesProofs` with `Reading`, `Discovery` and the four services together |

Modules whose components share no row are checked side by side: an MC module is the
sum of several models of which only one moves in a behaviour, and `part` says which.
The others keep an initial state.  This costs the sum of the state spaces, not their
product.

| Sum | Parts |
|---|---|
| `MCRemoteConvergence` | `RegistrationDecision`, `Invitations` (`Invite!`), `IdentityReconciliation` (`Identity!`) |
| `MCForumServices` | `Discussion`, `ReportsAndDiscipline` (`Report!`), `Reading` (`Read!`), `Discovery` (`Discover!`) |
| `MCGovernance` | `Governance`, `AreasAndGroups` (`Arrange!`) |
| `MCOperations` | `ControlPlane`, `ReleaseCommand` (`Release!`), `SchemaMigration` (`Schema!`), `RequestLimiter` (`Limiter!`) |

### IdentityReconciliation and BoardAccess

A row has a suspension (`none`, `open`, `finite`, `expired`: `suspended_at` and
`suspended_until` against the clock), a sync state, a revision and a time of the
next attempt (`due`).  `task[w]` is what a request or a reconciler is doing: it
holds the revision it committed (`OwnsRow` is the comparison each completing
statement makes), and its phases are the transactions and the remote calls of
`suspension.go`: `begin`, `load`, `remote` (steps 1 to 3 change groups, step 4
verifies), then `record` or `complete`.  A remote call may fail with or without
effect, and an interrupt loses tasks at any time (a crash, a cancelled context).
No finite suspension can be made by this version of the code; those in `Init` are
the ones migration 000013 finds.  Roles are constants here (they change in
`Governance`), an account's sessions are one bit, and a moderator's mute, which the
code also refuses, is left out of `MayModerate`: without that guard the model has
more behaviours than the code and its safety properties still hold.

The statements of a reinstatement read their actor in the statement's snapshot
and then wait for the target's row.  They are two steps each
(`AuthorizeReinstatement`, `BeginIdentityReinstatement`; `AuthorizeCompletion`,
`CompleteIdentityReinstatement`); all other transactions lock what they decide on
first and are one step.  A suspension decides with a clock reading older than its
locks, so that it may commit over another one that begins later: `Suspendable` leaves
out only suspensions with an end, which nothing begins any more.

`BoardAccess` knows only who is granted access, who has a session and whom the
remote system accepts.  Deny is one step; Restore needs a confirmation that no
denial came after.  `ImplementsBoardAccess` is the refinement: `confirmed` are
the users for whom a task with a verified grant still owns the row.

### RegistrationDecision

One row per applicant, `call[c]` for each handler.  `ReuseIds` chooses who makes
request ids: the callers of `Decide` in its contract repeat the id of the call they
retry (TRUE), the HTTP handler passes the id its middleware generated (FALSE).  An
id that nobody holds is recycled, so three are enough for any number of calls.
The login callback creates the account only when the row is approved (or absent:
open and invited enrolment is accepted by Authentik alone).

### Invitations

A row and the generation of the remote object that is live under its name.
Consumption and expiry are one event (`InvitationEnds`).  The loss of an
administrator's authority ends a call where an interrupt would and is not a step
of its own.  The list page hands out the handles revocations need; it refuses
entirely when one terminal row still has a live object, which is why its failure
is part of `RevocationConverges`.  Its window of 51 rows is one of its failures.

### Governance

With `AreasAndGroups` the module at the granularity of single locks: `governance` and `locked[u]`
hold the transaction that has the row, and a form goes through `governance`,
`first`, `second`, `check`, `write`.  Rows are taken in ascending order of ids, as
`lockAdministrationUsers` does.  Memberships take no governance row, and a
reinstatement takes nothing before the row it writes.  Of the targets suspended while a
form was under way only suspensions take another one (`NotSuspendedYet`): their clock
reading may be the older one, and they carry no revision.  Continuity is protected
twice in the code: the actor, who is checked again under the locks, is an active
administrator and never the target, and the count would refuse as well.  The count
and the history's check matter only for a database that was repaired by hand.

### Sessions

One account.  `expires_at` is the issue time plus `MaxAge`; the columns
`login`, `attempt` and `under` of the model are history, for the properties, and so is
`since`, the revision of the last change that revokes sessions: a membership form
advances the revision without it (`AdvanceRevision`), and the setup of the first
administrator gives a role and changes neither.  Each
call keeps the clock reading of its start.  Locks follow from the steps: a rotation
holds its session and then needs the user, revocations hold the user and then need
the sessions; the two may wait for each other and either may be rolled back, which
is what the 250 ms lock timeout and the deadlock detector do.

### Discussion

One role bit (moderators and administrators may do the same here), one bit for
muted or suspended, areas with their posting mode, topics and posts with the columns
that counters and placement depend on.  `text` counts the bodies of a post and
`charged` is the window that admitted it; both are history.  A reply holds topic,
area and parent from `LockTopicForReply` to its commit.  A transaction's last lock
is merged with its commit: under two-phase locking nothing can come between that
others could tell.  An edit or a deletion is authorised with the account of the
request (`StartChange`) and not checked again, as in the code.

### AreasAndGroups

The administration of areas and groups, with the same granularity as `Governance`.
`task[t]` is a page, a form that came from one, or a list that is read page by page.
The page of an area or an account is two statements; `page` keeps what both showed and
the form compares one revision.  An id is drawn when its row is inserted, not when
that commits, so a smaller one may appear after a larger one.  `trail` is the chain
of audit records of each area: what each says was there before and after.  The triggers
of the schema (an area for groups needs a group, and the reverse) are part of the
statements that fire them.

### ReportsAndDiscipline

A call is a record in `task` with the time it read (`at`) and the rows it has locked.
The user rows of a warning or a mute are taken by ascending id.  A report locks its
reporter, counts, and inserts; the insert's foreign key takes the reported account's
row, out of order, so deadlocks that involve such a report are possible
(`CyclesNeedAnAccountReport` says that no others are).  The pages are operators on the
rows: what the handlers accept and what they answer with 503.

### Reading and Discovery

Every statement is an operator on the state it reads, with its own copy of the
visibility rule and of the order of threads, as in the SQL.  A post has no time here:
the latest is the last written, which a clock that steps back could tell apart across
topics, though each post stays on its page.  Only marking a topic read
takes several steps (the boundary is chosen, the upsert waits for the row, the row is
read back).  Discovery's walk is one reader who follows cursors; the environment writes
posts, changes visibility, moves the clock and replaces signing keys.

### The release

`RendererMigration` and `SearchProjection` are the two conversions of
`ReleaseCommand`: preflight pages, batches behind a cursor in the database, completion.
A batch is one transaction: it locks the state, selects, prepares, and commits, where a
commit may fail with an unknown outcome.  A command goes through its phases in order
and is started again after a failure; two may overlap.  `Conversion` is what each
promises: rows leave the waiting set for good, and it is called finished only when that
set is empty.  `SchemaMigration` is the migrator proper, with releases as sequences of
files; `ReleaseCommand` has it as a number, since the two are tied only by the order of
the phases.

### ControlPlane and RequestLimiter

Two forms write the singleton of site settings under one revision, the transport's form
writes its row and Authentik's, and the email test is two transactions around the
message.  The transport's form holds three rows while it calls Authentik; everything
else locks what it needs in the step that commits.  `RequestLimiter` is the table of
fixed windows, with the clock read before the mutex: two requests may enter in the
order opposite to their readings.

## Conventions of the models

- A database transaction is one step when it locks what it reads before it
  decides.  Otherwise each wait is a step, and locks are variables or predicates.
- A remote call is a step of its own, may fail with or without effect, and nothing
  is locked around it; the one exception is the mail transport, whose settings the
  code hands to Authentik inside its transaction, and the model too.
- Revisions have a largest value: the queries refuse to go beyond it, the models do
  too, and a property that needs revisions says so (`revision[p] = MaxRevision`).
- `Rollback` and `Interrupt` stand for errors, timeouts, cancelled contexts, lock
  victims and crashes.  What was committed stays.
- Names, bodies, reasons, audits and tokens are data and left out.  An audit is
  written by the statement that makes the change.
- Mutation operators (`Mutation of ...`) stand beside the definitions they change.
  No specification uses them; each shows that one property notices one plausible
  mistake.

## Runs

Every bound is a constant or a constraint of a configuration, except in `forum_services`
and `governance_safety`: there a step that would leave the bounds is not taken
(`BoundedSpec`, the runs of `PartSpec` that stay within `PartBounds`; the theorems are
about `PartSpec`).  Two of what competes is
enough in each of them: every lock, row, window and cursor is contended by pairs, and
the third party of the interesting scenarios (the worker, a moderator, the clock, a
crash) is in the model besides.

| Run | Instance | States | Shows |
|---|---|---|---|
| `identity_protocol` | two administrators, two requests, two reconcilers, revisions up to 5, a failure, a crash | 491k | types, sessions follow access, denial, continuity, ownership and distinctness of intents, refinement of `BoardAccess` |
| `remote_convergence` | one applicant, two administrators and two calls; an invitation and two calls; an administrator and a member, one request, one worker; a failure and a crash in each | 205k | convergence under fairness, and what must never happen on the way |
| `governance_safety` | three accounts and two transactions; two areas, two groups, two administrators and two requests | 844k | setup, continuity, no wait cycle, authority, freshness, truthful pages |
| `sessions_safety` | two calls, three attempts, two sessions, two changes of the account, time for both limits | 1.2M | attempts, rotations, revocations |
| `forum_services` | a member and a moderator, two areas, a topic, three posts, two calls; two reporters; one reader; one walk | 343k | threads, limits, authority, nothing lost, readers agree |
| `operations` | two commands, three posts in batches of two; three releases and two runs; two calls on the settings, two transports; three addresses, two windows | 221k | conversions, ledger, settings, mail, limiter |
| `identity_uncertain`, `registration_fresh_ids`, `invitation_gone`, `sessions_revoke_all`, `request_capacity`, `smtp_unapplied` | | | the six disagreements below |

Where several modules have a property of one kind, the MC module gathers them under one
name, and each conjunct has a mutant of its own:

| Gathered property | Conjuncts |
|---|---|
| `PartTypeOK` | the type invariants of the parts |
| `LimitsHold` | `WindowLimit` (publications), `ActiveReportsAreBounded` |
| `CommitsAreCurrent` | authority at the commit of publications, reports and discipline; a reply finds its parent |
| `NothingGoesBack` | edits, redactions, reports, mutes, markers, cursors |
| `ReadersAgree` | the staff's pages, markers, lists, links, search, the walk |
| `NoDeadlock` | `NoWaitCycle` of `Governance` and of `AreasAndGroups` |
| `ViewsAreTrue`, `ChangesAreOfTheirPage` | pages, trail and lists of `AreasAndGroups`; its forms |
| `InvitationsAreExact` | what was revoked was deleted; no token leaves twice |
| `OutcomesStand` | a decision and an invitation's end are final |
| `RemoteConverges` | the liveness of the three remote protocols |
| `ReleaseIsConverted`, `ConversionsRefine` | the served release, the counts, the preflight; two refinements of `Conversion` |
| `SchemaIsItsLedger` | the ledger, the runs and a serving process |
| `MailIsVerified`, `SettingsAreCurrent` | invariants and step properties of `ControlPlane` |
| `LimiterHolds` | capacity, enforced windows |
| `OperationsEnd` | the liveness of commands, migrators, tests and refusals |

Bounds that need a word:

- `begun`, `failures`, `interrupts`, `faults` bound the environment, not the code; when
  they are used up nothing may be left to do, so the runs with such a bound do not check
  for deadlock.  `governance_safety` and `sessions_safety` do.
- Symmetry is used in runs without liveness only, over requests, slots, areas or
  administrators, whose members no definition tells apart.
- `FewTasks` (identity): at most three tasks at a time, and a failure or a crash only
  with one request; `remote_convergence` has the latter too.  The theorems cover them together.
- `FewChanges` (Governance) allows three account changes: promote, demote, suspend back, or two suspensions of one account.
  A session that outlives the setup, which nothing asks for any more, ends before the second.
  `FewArrangements` (areas and groups): two changes, requests at once only when they
  concern the same table or one of them walks through a list the other changes.
- `FewCalls` (Sessions): one revocation at a time, since two only wait for the user's
  row, and one attempt that is still out, the third before the clock reaches its end and
  before the account changes; the second change is not a membership.
- `FewDisturbances` (Discussion): two things out of the ordinary at once (a barred or
  demoted account, a closed area, a topic that is not open, deleted or edited posts), one
  moderation call, room for another post while two calls run, and, once the clock has moved, publications only.  Everything the
  properties relate is a pair of those, and the properties about the clock do not depend
  on them.  `FewIncidents`, `FewClosures` and `FewRows` do the same for reports, reading
  and discovery; with something unusual in a report, no call works on one that is done.
- `FewSettings` (ControlPlane): one call out of the ordinary, and two at once only of one
  row's forms or where one does not decide the other; a changed shell meets the forms of
  the settings only.  `FewUnlikePosts` (releases): of three posts at most two are too large
  or redacted, one while two commands run.

## Fairness

Fairness is assumed where the code's scheduling gives it, and only in the two runs with
liveness, `remote_convergence` and `operations` (and in `registration_fresh_ids`, whose
counterexample has to be a fair one).

- A handler that has begun goes on (weak fairness of each call's step): a handler is a
  goroutine with a timeout, and its end without a result is a failure or an interrupt,
  of which there are finitely many.
- The worker keeps ticking (`cmd/forum/main.go` runs it at the start and every minute),
  time passes, and a back-off elapses.  One worker: a claim keeps others away for a
  minute, which is longer than a tick can take (five identities, four calls of at most
  2.5 s), and a deployment runs one process.  The model has no minutes, so two workers
  could take claims from each other for ever; they are in the safety run.
- Registration: administrators keep asking for a decision that is not there yet (strong
  fairness of `RetryDecision`, which other calls may disable in between).  Invitations:
  an invitation is used or expires, and an administrator who asked for a revocation asks
  again (strong fairness of `StartRevoke` for the keys in `asked`).  The code retries
  nothing by itself there, and remote failures stop.
- A command and a run of the migrator go on once started (weak fairness of their
  steps).  The operator repeats a command once the schema has begun to change, and as
  long as the readiness check fails; nothing is assumed of a command before that.  The
  migrator's session lock is granted to who keeps waiting for it (strong fairness):
  PostgreSQL queues waiters of an advisory lock.
- The calls of `ControlPlane` go on.  Nothing is assumed of the limiter's requests:
  `CapacityRefusalsEnd` is a property of single steps (a refusal for capacity needs a
  window that is still enforced).

Nothing is assumed about failures, interrupts, logins or other administrators.

## Proofs

Eight modules hold theorems.  Each proves for every value of the constants (any number
of accounts, calls, workers, failures, crashes, revisions) what the runs check on small
instances: `Spec => []P` for invariants, `Spec => P` for step properties and for the
refinement.  Assumptions on constants are the named ASSUMEs of the modules (finite sets
of accounts, disjoint roles, distinct slots, bounds that are naturals), and nothing else;
`Discussion` adds that a publication window is not empty and its limits are ordered as
`abuse/publication.go` requires, and `AreasAndGroups` that ids are positive and display
orders not negative, as the schema has them (`migrations/000002_groups_and_areas.sql:47`);
`ReleaseAssumption` has ids that are positive, a batch and a number of attempts that are
not zero, and a `None` that is no command; `ReportsAssumption` has finitely many accounts with ids and
numbers for limits and durations; `ReadingAssumption` a visitor who is no account, pages of
at least one row and room for the first post of every topic; `DiscoveryAssumption` a search
window of two pages, as `discovery/runtime.go` has it, keys with ids and their windows.  The
modules that are used only as instances declare no
ASSUME: the MC module that instantiates them does (`PartsAssumption`,
`AccountsAssumption`), so TLC evaluates it with the runs, and the proofs use it.  The
bounds of the environment are among the constants: a theorem with `MaxFailures` any
natural number is one about any number of failures.

`RemoteConvergenceProofs`, `ForumServicesProofs`, `ForumReadersProofs` and
`OperationsProofs` prove about the specification of their
MC module, in which each run chooses a part.  A lemma there (`PartsAreTheirOwn`, `PartsRun`)
reduces a step of the whole to a step of each module or a stutter of it; the rest is about
one module, and the module names it by its instance (`Invite!`, `Schema!`, `Release!`,
`Limiter!`, `Report!`, `Read!`, `Discover!`).
`GovernanceProofs` does the same with less repetition: `AreasAndGroups` has proofs of its
own, which it instantiates with the constants and variables of `MCGovernance`
(`Proved!`).  Since `Proved!` and `Arrange!` are instances of the same definitions under
the same substitution, the lemmas that say so (`SameSteps`, `SameViews`, `SameRings`,
`SameChanges`) hold by expanding both, and every theorem of `AreasAndGroupsProofs` becomes
one about `PartSpec`.  So do the types of
`IdentityReconciliationProofs` in `RemoteConvergenceProofs` (`SameModeration`).

All follow one scheme.  Actions are first reduced to a few *shapes* of what a step can
do to rows and calls (`RowSteps`, `CallMoves`, ...); the parts of the inductive
invariant are proved against the shapes, each in a lemma; `Invariantly` gathers them
and the theorems are read off it.

| Module | Inductive invariant beyond the properties | Why it is needed |
|---|---|---|
| `IdentityReconciliationProofs` | `AuthorizedIsDenied`, `Standing`, `Numbered`, `ReconcilersGrant` | a reinstatement that was authorised but has not committed must still find its target denied; a task's revision is no higher than its row's |
| `GovernanceProofs` | `LockInv` (`GovernanceHeld`, `RowsHeld`), `FormChecked`, `SetupChecked`; `LocksKnown`, `HoldsWhatItTook` for the ring | what a transaction checked is still so while it holds its locks |
| `AreasAndGroupsProofs` | `TasksAreTrue`, `LocksArePlanned`, `LocksExclude`, `ChecksHold`, `AreasFit`, `SomebodyAdministers` | a form holds the first rows of a plan that climbs, and what it checked of them holds while it does; what a page or a walk remembers is true of the rows whose revision did not move |
| `SessionsProofs` | `References`, `AttemptsAreUsedOnce` | only one callback may carry an attempt to a session |
| `ForumServicesProofs`: discussion | `References`, `ActivityIsLatest`, `TextIsRevision`, `LocksExclude`, `LocksHold`, `WindowsAgree` | what a call read under its locks is still there at its commit |
| `ForumServicesProofs`: reports | `ReportInv` (`StandingIsExact`, `CallsStand`, `RowsAreHeldOnce`, `RowsAreServed`) | a call that counted holds its reporter's row, so the count is not too low when it inserts; a row once written has a shape that its page takes |
| `ForumReadersProofs`: reading | `ReadInv` (`NumbersCount`, `PathsGrow`, `RedactedIsDeleted`, `MarkersFit`, `MarksStand`, `AdvancesAlone`) | a mark that found less than it chose holds the marker's row; numbers count posts, paths begin with their parent's, so ranks in the order of paths are places on pages |
| `ForumReadersProofs`: discovery | `DiscoverInv` (`TopicsBegin`, `CursorStands`, `WalkStands`) | a cursor was issued in its key's window, and the key has left the ring only when the cursor is too old; a walk has shown whatever lies before its cursor |
| `RemoteConvergenceProofs`: decisions | `IntentKept`, `VerifiedKept`, `EnrolmentKept` | all calls of an intent push the groups the same way until it ends |
| `RemoteConvergenceProofs`: invitations | `CountsHold`, `GenerationsAgree`, `CallsAreTrue` | every generation has one maker, one mailer, one reader |
| `OperationsProofs`: settings | `CallsAreTrue`, `KeysAreGivenOut`, `OneHolder` | who finds its key in a reservation finds its own revision; the site's row is held from look to commit |
| `OperationsProofs`: schema | `LockHeld`, `LedgerIsTheSchema`, `RunsAreTrue`, `ServingIsTrue` | between lock and unlock a run is alone: ledger and pending files make up its release |
| `OperationsProofs`: release | `PostsAreTrue`, `RendererIsTrue`, `ProjectionIsTrue`, `CommandsKnow`, `LocksAreHeld`, `BoardsAreTrue` | what has been converted is what lies before the cursor; what a command selected under the state's row is still waiting when it writes |
| `OperationsProofs`: limiter | `WindowsAreBounded`, `RememberedIsReal` | the remembered expiry is no later than the end of the last window |

The arguments, where they are not plain:

- **Access** (`SuspensionDeniesAlways`, `SessionsFollowAccessAlways`,
  `ContinuityAlways`, `IntentOwnsRowAlways`, `IntentsAreDistinctAlways`).  `RowStep` lists
  the ways a row can change.  Denial and sessions are kept together, since a session is
  safe only because a suspended user is never accepted.  Continuity counts: only a
  suspension takes an administrator away, and it has counted two.  Revisions never fall
  and every transaction that writes the sync state raises them, so whoever still has the
  row's revision has written it last, and no two tasks have the same.
- **Refinement** (`BoardAccessImplemented`).  The initial states map to initial states,
  and each shape of step maps to a step of `BoardAccess` or to a stutter: a commit that
  denies is Deny whatever else it does; one that accepts is Restore and is only taken by
  a task whose verified grant still owns the row, which is why `confirmed` contains its
  user.  `ReconcilersGrant` says that the worker never carries a denial.
- **Continuity of governance** needs no counting: the actor of a form is an active
  administrator other than the target, is locked, and remains (`ActorRemains`).
- **No ring** (`NoWaitCycleAlways`, `NoDeadlockAlways`).  Whoever waits for the governance row holds
  nothing; whoever waits for an account's row waits for a transaction that, if it waits
  itself, waits for a row of a larger id (`WaitsUpwards`).  A set of transactions in
  which each waits for another of the set would climb for ever in a finite set of ids
  (`NoEndlessAscent`, by the well-foundedness of finite sets).  Among the forms of
  `AreasAndGroups` every plan takes accounts by their ids, then an area, then a group, so
  the same argument applies to the place of a row in that order (`PlansClimb`, `NoRing`).
- **Forms and their pages** (`ChangesAreOfTheirPageAlways`).  A row whose revision is
  still the one of the page is the row the page showed, for both statements of the page,
  although no snapshot joins them: whatever changes an area's groups or an account's
  memberships raises the revision of the area or the account (`RowsAdvance`, and
  `ShownIsTrue` for what a page knows).  The form compares the revision under the row's
  lock and writes before it lets go (`ChecksHold`); the actor's row is locked and checked
  the same way.
- **Pages and lists** (`ViewsAreTrueAlways`).  The triggers and the locked row keep
  groups and visibility of an area together (`AreasFit`); the demotion of an administrator
  needs another one.  For the lists: a statement returns the first rows after a key
  (`FirstRowsFit`: such rows exist for every set of keys, by the least page size for which
  they would not), so a page adds the rows between two keys, once (`PageLists`), and a row
  that was there at the start and kept its revision kept its place in the order
  (`WalkStays`); what the walk's key has passed is listed once, what it has not is not
  (`WalkIsTrue`).
- **One session** (`OneSessionAlways`, `SessionsOnlyEndAlways`).  An attempt's
  conditional update gives it to one callback; a rotation finds its session unrevoked
  when it writes, so the new one takes the place of the only one its sign-in had left.
- **Registration** (`AccountIsApprovedAlways`, `DecisionIsRemoteAlways`,
  `DecisionStands`).  While the row stands under a decision and a request id, every call
  that works on it has that decision and that id; while there is no row the groups are
  what enrolment made them, so an account older than its row is an accepted one.  Both
  kinds of request ids (`ReuseIds`) are covered: safety does not depend on who
  repeats.
- **Discussion** (`ThreadIsConsistentAlways`, `WindowLimitAlways`,
  `AuthorityAtCommitAlways`, `RepliesFindTheirPlaceAlways`, `NoLostEditAlways`,
  `RedactionIsFinalAlways`).  `LocksExclude`: two calls never hold one row.  `LocksHold`:
  what a call has read of a row it holds is what the row says.  `WindowsAgree`: the
  stored count of a window is the number of posts it charged, so the comparison with
  the limit counts posts.
- **Reports and discipline** (`LimitsHoldAlways`, `CyclesNeedAnAccountReportAlways`,
  `CommitsAreCurrentAlways`, `ReportMovesForwardAlways`, `MutesOnlyGrowAlways`).  A report
  is counted and inserted under its reporter's row, and other steps only take active
  reports away, so the count a call holds is never below the number of rows
  (`CallsStand`).  What a call asked of the rows it locked stays true until it ends,
  because no one else holds them (`RowsAreHeldOnce`).  Warnings and mutes lock two
  accounts by ascending id: in a ring of such calls, of any size, the one that holds the
  greatest id would wait for a smaller one.  So a ring contains a call that locks its
  actor before its target, and that is only a report about an account.
- **Markers** (`MarkerOnlyRisesAlways`).  A request chooses, inserts or locks, and updates
  in three steps.  `AdvancesAlone`: one that has found the stored marker below its choice
  holds the row, so nobody moves the marker before it commits.
- **Pages** (`ReadersAgreeAlways`).  A finite set in a strict order gives each element a
  rank, the number of those before it; ranks are strict, and every number below the
  cardinality is the rank of exactly one element (`RankIsStrict`, `RankIsTaken`,
  `RanksCount`).  The pages of a thread are intervals of ranks in the order of paths, the
  ordinals of the index and the first unread post are ranks in the same order, so each
  leads to the page its post is on.  A search takes the first ranks by time for its window
  and the first ranks by relevance of those for its page; what it finds is therefore what
  matches, unless it says that there is more beyond the window.  A page of the activity is
  the first ranks of what lies before the cursor.
- **The walk** (`ReadersAgreeAlways`, `CursorIsHonouredAlways`).  Posts that were seen
  throughout the walk lie before the cursor or have been shown (`WalkStands`): rows keep
  their time and order, and what comes later comes in front of the cursor.  A key leaves
  the ring only once cursors it signed are too old, also when the clock was set back
  (`Retired`, by the allowance for skew that a clock which has been behind cannot use
  twice), so a refused cursor is too old or meets another audience (`CursorStands`).
- **Nothing goes back** (`NothingGoesBackAlways`) puts the step properties of the four
  services together.
- **Invitations** (`InvitationsAreExactAlways`, `OutcomesStandAlways`).  Cardinalities:
  tokens mailed and shown of a generation, plus the calls that may still do so, are at
  most one.  A generation that was deleted is never live again and was not consumed.
- **Mail and settings** (`MailIsVerifiedAlways`, `SettingsAreCurrentAlways`).  The one
  change that unverifies a transport holds the site's row from its look at it to its
  commit, so registration cannot be opened in between; a key is given out once, so a
  completion that finds its key finds its reservation.
- **The limiter** (`LimiterHoldsAlways`, `RefusalsEndAlone`).  A scan that leaves no
  room remembers the least end of the windows it kept, which exists because the entries
  are finitely many (`Least`, by the well-foundedness of finite sets).  From then on
  the remembered expiry only moves to a window's end, so it is never after the last one,
  and a refusal for capacity finds a window still enforced.
- **The ledger** (`SchemaIsItsLedgerAlways`).  Prefix lemmas (a prefix and what the
  comparison leaves concatenate to the release; appending the next file leaves a
  prefix), then `RunsAreTrue`.
- **The release** (`ReleaseIsConvertedAlways`, `ConversionsRefineAlways`).  A page holds
  the first rows behind a cursor and, unless it is the last one, as many as a batch
  (`PageRows`, `PageEnds`): so a batch is what is stale up to its last row, and what
  stays behind the new cursor is what was behind the old one.  A command holds the row
  of the state from its selection to its commit, whoever else runs, so the cursor it
  selected behind is still the cursor (`LocksAreHeld`).  A preflight walks over every
  post before the ledger says that the release is there; what it finds convertible stays
  so, since the old board is stopped while a command runs, does not come back once the
  ledger has moved, and the new one writes rows that need no conversion
  (`PostsAreTrue`), so no batch is refused.  Both conversions map to `Conversion`: the
  stale posts, and the topics and posts without a vector, only lose members, and
  completion is recorded by a command that saw none left under the lock.

**Only model-checked, and why.**

- Liveness (`RemoteConverges`, `OperationsEnd`) and whatever needs ENABLED are outside
  what the prover can do.  Every other property of every passing run is a theorem.
- What a recursive definition computes for every input is induction over data, which the
  installed provers cannot do.  The modules avoid the question: orders are ranks and pages
  are sets of ranks, not sorted sequences.

## Where code and documents disagree

- **An uncertain outcome is not always retryable** (`identity_uncertain`).
  `docs/prd.md`, ID-016, wants it to be.  The remote removal of a suspension can
  land after another moderator's reinstatement has completed; the suspension then
  ends with a conflict and records nothing.  The account is accepted locally and
  suspended in Authentik, and the manual reconciliation refuses such a row.
- **A decision that failed half-way is never completed** (`registration_fresh_ids`).
  `Decide` resumes an intent only for the request id that committed it, and each
  HTTP request has its own.  `docs/implementation-spec.md` promises that the retry
  completes.
- **An invitation can outlive its end** (`invitation_gone`).  A revocation during
  the remote call of the creation records "absent"; the call then makes the
  invitation, under a row that is terminal, and the list page fails until it is
  gone.
- **Revoking all sessions can leave one** (`sessions_revoke_all`).  The clock
  reading that selects them is older than the locks; a session used in between was
  seen later than that and is left out.
- **A full limiter may refuse although a window has expired** (`request_capacity`).
  A window that restarts makes the limiter forget the earliest expiry; the next
  insertion sets it to its own, later one, and no scan happens before that.
  `docs/architecture.md` promises the refusal only when no expired entry exists.
- **Registration can be opened on mail settings Authentik does not have**
  (`smtp_unapplied`).  The settings reach Authentik inside the transaction that
  records them; if the answer or the commit is lost, the board keeps the old revision,
  still verified.  `docs/implementation-spec.md` rules an unapplied transport out.

In each case a lost update or a lost promise follows from an ordinary
interleaving; none lets a denied account act.

## Not modelled

- Rendering, templates, Markdown, the parsing of forms, settings and environment:
  functions on text.
- The HTTP clients of Authentik, the gateway and SMTP: the modules see a call that
  succeeds, fails, or succeeds without an answer.
- Authentik itself, beyond the groups and invitations the code reads and writes.
- Readiness: read-only probes; what they ask for is an invariant of the modules that own
  the state.
- Identity rebind: an operator's command for which the application is stopped.
- Building, packaging, deployment, generated code.
- Of administration: `CreateArea`, `UpdateArea` and `LoadAreaManagement` of `area.go`, which
  no request reaches once the administration pages are wired
  (`httpui/authenticated_handler.go:822`).
- Of discovery: the limit of concurrent searches, the grammar of a request, signatures,
  rendering, the reading of the key file; the second page of a search is taken from the
  first one's snapshot.
- Of the modelled parts: the expiry of handles, the contents of audits, the size
  limits of pages other than those named, the encryption of the mail password.

Known and without a property:

- an edit or a deletion is authorised with the account as the request loaded it, and not
  checked again under the post's lock (`forum/edit.go:106`), unlike publications and
  moderation; the model does the same, and `CommitsAreCurrent` leaves both out;
- the page of an area shows the names of its groups, and a renaming does not change the
  area's revision, so a form may come from a page with an old name;
- for staff the page that the index names for the latest post may be another one than
  the post is on, since their pages have nodes that the index does not count
  (`docs/CHANGELOG.md:1559` says latest-post links use the ordinals of the tree);
  `LatestPostIsOnItsPage` is stated for everyone else.

## Plan

The modules of the system's own logic are written, and every property that a passing run
checks is a theorem, except the two of liveness.  What would come next, in this order:

1. `Discovery`: the limit of concurrent searches, and a search whose second page is taken
   from a later snapshot than its first.
2. `Release`: artifacts and their verification, before the command that uses them.
3. `Rebind`: the operator's command that gives an account another identity, with the
   application stopped.
