----------------------- MODULE IdentityReconciliation -----------------------
(***************************************************************************)
(* Suspension and reinstatement of forum users across two systems that     *)
(* share no transaction: the Board database, where one row per user holds  *)
(* the suspension, the synchronisation state and the administration        *)
(* revision, and the Authentik groups, which are reached by single calls   *)
(* that may fail.  A moderation request is one HTTP handler: it commits an *)
(* intent, makes its remote calls outside any transaction, and commits the *)
(* result only if the row still carries the revision of its intent.  The   *)
(* reconcilers are the periodic workers that lift expired suspensions.     *)
(*                                                                         *)
(* A database transaction is one step when it first locks the rows that it *)
(* reads and decides on.  The two statements of a reinstatement read their *)
(* actor without a lock, in the snapshot they start from, and may then     *)
(* wait for the target's row: each of them is two steps.                   *)
(***************************************************************************)
EXTENDS Naturals, FiniteSets

CONSTANTS
    Users,           \* the forum accounts; each has an external identity
    Administrators,  \* the accounts whose role is administrator
    Moderators,      \* the accounts whose role is moderator
    Requests,        \* slots for moderation requests that run concurrently
    Reconcilers,     \* the processes that run the expiry worker
    ClaimLimit,      \* identities one tick may claim (5 in the code)
    MaxRevision,     \* largest administration revision (2^63 - 1 in the code)
    MaxRequests,     \* bound: moderation requests that may begin
    MaxFailures,     \* bound: remote calls that may fail
    MaxInterrupts    \* bound: times that running tasks may be lost

ASSUME UsersAssumption ==
    /\ IsFiniteSet(Users)
    /\ Administrators \subseteq Users
    /\ Moderators \subseteq Users
    /\ Administrators \cap Moderators = {}

ASSUME WorkersAssumption == Requests \cap Reconcilers = {}

ASSUME BoundsAssumption ==
    /\ ClaimLimit \in Nat \ {0}
    /\ MaxRevision \in Nat \ {0}
    /\ MaxRequests \in Nat
    /\ MaxFailures \in Nat
    /\ MaxInterrupts \in Nat

VARIABLES
    suspension,  \* users.suspended_at and suspended_until against the clock
    sync,        \* users.authentik_sync_state
    revision,    \* users.administration_revision
    due,         \* whether users.authentik_sync_next_attempt_at has passed
    session,     \* whether the user has a session that is not revoked
    groups,      \* the Authentik groups of the user's identity
    task,        \* what each worker is doing
    claims,      \* identities a reconciler has claimed and not yet handled
    begun, failures, interrupts  \* consumed parts of the three bounds

row == <<suspension, sync, revision, due, session>>
bounds == <<begun, failures, interrupts>>
vars == <<row, groups, task, claims, bounds>>

Workers == Requests \cup Reconcilers
RequiredStates == {"removal_required", "grant_required"}
SyncStates == RequiredStates \cup {"accepted", "suspended"}
GroupNames == {"accepted", "pending", "suspended"}

\* "open" has no end, "finite" ends in the future, "expired" ended.
Suspensions == {"none", "open", "finite", "expired"}

Idle == [phase |-> "idle"]
ActiveTasks ==
    [phase    : {"begin", "load", "remote", "record", "complete", "commit"},
     origin   : {"suspend", "reinstate", "manual", "expiry"},
     intent   : RequiredStates,
     user     : Users,
     actor    : Users \cup Reconcilers,
     revision : Nat,  \* 0 while the intent is not committed
     step     : 1..4]

TypeOK ==
    /\ suspension \in [Users -> Suspensions]
    /\ sync \in [Users -> SyncStates]
    /\ revision \in [Users -> 1..MaxRevision]
    /\ due \in [Users -> BOOLEAN]
    /\ session \in [Users -> BOOLEAN]
    /\ groups \in [Users -> SUBSET GroupNames]
    /\ task \in [Workers -> ActiveTasks \cup {Idle}]
    /\ claims \in [Reconcilers -> SUBSET [user : Users, revision : Nat]]
    /\ begun \in 0..MaxRequests
    /\ failures \in 0..MaxFailures
    /\ interrupts \in 0..MaxInterrupts

-----------------------------------------------------------------------------
(* The predicates the queries share. *)

EffectivelySuspended(u) == suspension[u] \in {"open", "finite"}

\* A request that changes a suspension reads the clock before it waits for its
\* locks, so that a suspension others committed meanwhile may begin after its
\* reading and does not count as one in force.  Only requests still begin
\* suspensions, and theirs have no end.
Suspendable(u) == suspension[u] # "finite"

InGoodStanding(u) == sync[u] = "accepted" /\ ~EffectivelySuspended(u)

ActiveAdministrators == {u \in Administrators : InGoodStanding(u)}

MayModerate(a, u) ==
    /\ a # u
    /\ InGoodStanding(a)
    /\ a \in Administrators \/ (a \in Moderators /\ u \notin Administrators \cup Moderators)

\* The row still carries the intent the task committed.
OwnsRow(t) == sync[t.user] = t.intent /\ revision[t.user] = t.revision

\* The group an intent takes the identity out of, and the one it puts it in.
Left(intent) == IF intent = "removal_required" THEN "accepted" ELSE "suspended"
Joined(intent) == IF intent = "removal_required" THEN "suspended" ELSE "accepted"

NewTask(origin, intent, u, a) ==
    [phase |-> IF origin = "suspend" THEN "load" ELSE "remote",
     origin |-> origin, intent |-> intent, user |-> u, actor |-> a,
     revision |-> revision[u] + 1, step |-> 1]

\* Mutations of Advance: the width of the revision is not checked; a write
\* that keeps the state does not count as a change.
AdvanceUnchecked(u, state, retryNow) ==
    /\ sync' = [sync EXCEPT ![u] = state]
    /\ revision' = [revision EXCEPT ![u] = @ + 1]
    /\ due' = [due EXCEPT ![u] = retryNow]

AdvanceOnChange(u, state, retryNow) ==
    /\ revision[u] < MaxRevision
    /\ sync' = [sync EXCEPT ![u] = state]
    /\ revision' = [revision EXCEPT ![u] = IF sync[u] = state THEN @ ELSE @ + 1]
    /\ due' = [due EXCEPT ![u] = retryNow]

\* A transaction that gives u's row a new sync state and its next revision.
Advance(u, state, retryNow) ==
    /\ revision[u] < MaxRevision
    /\ sync' = [sync EXCEPT ![u] = state]
    /\ revision' = [revision EXCEPT ![u] = @ + 1]
    /\ due' = [due EXCEPT ![u] = retryNow]

Ends(w) == task' = [task EXCEPT ![w] = Idle]

\* An expired suspension that the migration to this schema found in force is
\* still to be lifted; one that it found expired left the user accepted.
Init ==
    /\ suspension \in [Users -> Suspensions]
    /\ sync = [u \in Users |->
                 IF EffectivelySuspended(u) THEN "removal_required" ELSE "accepted"]
    /\ ActiveAdministrators # {}
    /\ revision = [u \in Users |-> 1]
    /\ due = [u \in Users |-> TRUE]
    /\ session \in [Users -> BOOLEAN]
    /\ \A u \in Users : session[u] => InGoodStanding(u)
    /\ groups = [u \in Users |-> {"accepted"}]
    /\ task = [w \in Workers |-> Idle]
    /\ claims = [w \in Reconcilers |-> {}]
    /\ begun = 0 /\ failures = 0 /\ interrupts = 0

-----------------------------------------------------------------------------
(* Moderation requests: the transaction that commits the intent. *)

Begin(r, t) ==
    /\ task[r] = Idle
    /\ begun < MaxRequests
    /\ begun' = begun + 1
    /\ task' = [task EXCEPT ![r] = t]
    /\ UNCHANGED <<groups, claims, failures, interrupts>>

\* The row has moved on: the request ends with a conflict and changes nothing.
Conflict(r, phase, matches) ==
    /\ task[r].phase = phase
    /\ ~matches
    /\ Ends(r)
    /\ UNCHANGED <<row, groups, claims, bounds>>

\* Mutation of SuspendUserAndAudit: the sync state is left as it was.
SuspendKeepingState(u) ==
    /\ Advance(u, sync[u], TRUE)
    /\ suspension' = [suspension EXCEPT ![u] = "open"]
    /\ session' = [session EXCEPT ![u] = FALSE]

SuspendUserAndAudit(u) ==
    /\ Advance(u, "removal_required", TRUE)
    /\ suspension' = [suspension EXCEPT ![u] = "open"]
    /\ session' = [session EXCEPT ![u] = FALSE]

\* Mutation of SuspendUser: authority and count were read before the lock,
\* when every administrator was still active.
SuspendOnStaleRead(r, a, u) ==
    /\ a # u /\ a \in Administrators
    /\ Suspendable(u)
    /\ SuspendUserAndAudit(u)
    /\ Begin(r, NewTask("suspend", "removal_required", u, a))

\* The governance lock makes the count and the update one step.
SuspendUser(r, a, u) ==
    /\ MayModerate(a, u)
    /\ Suspendable(u)
    /\ u \in Administrators => Cardinality(ActiveAdministrators) > 1
    /\ SuspendUserAndAudit(u)
    /\ Begin(r, NewTask("suspend", "removal_required", u, a))

\* The snapshot of the statement that begins a reinstatement.  The task has
\* no revision yet.
AuthorizeReinstatement(r, a, u) ==
    /\ MayModerate(a, u)
    /\ EffectivelySuspended(u)
    /\ Begin(r, [NewTask("reinstate", "grant_required", u, a)
                   EXCEPT !.phase = "begin", !.revision = 0])
    /\ UNCHANGED row

\* Whoever holds the row by then, a suspension is still there as of the time
\* the request read the clock, or the request ends with a conflict.
BeginIdentityReinstatement(r) ==
    LET u == task[r].user IN
    /\ task[r].phase = "begin"
    /\ \/ /\ suspension[u] # "none"
          /\ Advance(u, "grant_required", TRUE)
          /\ task' = [task EXCEPT ![r].phase = "remote", ![r].revision = revision[u] + 1]
          /\ UNCHANGED <<suspension, session, groups, claims, bounds>>
       \/ Conflict(r, "begin", suspension[u] # "none" /\ revision[u] < MaxRevision)

\* An administrator retries whatever the row still asks for.
BeginManualIdentityReconciliation(r, a, u) ==
    /\ a \in ActiveAdministrators \ {u}
    /\ EffectivelySuspended(u)
    /\ sync[u] \in RequiredStates
    /\ Advance(u, sync[u], TRUE)
    /\ Begin(r, NewTask("manual", sync[u], u, a))
    /\ UNCHANGED <<suspension, session>>

\* A suspension reads its target again before it goes to the remote system.
LoadSuspendedIdentityTarget(r) ==
    /\ task[r].phase = "load"
    /\ IF OwnsRow(task[r]) /\ EffectivelySuspended(task[r].user)
         THEN task' = [task EXCEPT ![r].phase = "remote"]
         ELSE Ends(r)
    /\ UNCHANGED <<row, groups, claims, bounds>>

-----------------------------------------------------------------------------
(* The remote phase: two removals, one addition, and a read that verifies. *)

RemoteEffect(t, current) ==
    CASE t.step = 1 -> current \ {Left(t.intent)}
      [] t.step = 2 -> current \ {"pending"}
      [] t.step = 3 -> current \cup {Joined(t.intent)}

RemoteCall(w) ==
    LET t == task[w] IN
    /\ t.phase = "remote" /\ t.step < 4
    /\ groups' = [groups EXCEPT ![t.user] = RemoteEffect(t, @)]
    /\ task' = [task EXCEPT ![w].step = @ + 1]
    /\ UNCHANGED <<row, claims, bounds>>

\* Mutation of RemoteVerify: the groups read back are not compared.
RemoteVerifyUnread(w) ==
    LET t == task[w] IN
    /\ t.phase = "remote" /\ t.step = 4
    /\ task' = [task EXCEPT ![w].phase = "complete"]
    /\ UNCHANGED <<row, groups, claims, bounds>>

RemoteVerify(w) ==
    LET t == task[w] IN
    /\ t.phase = "remote" /\ t.step = 4
    /\ task' = [task EXCEPT ![w].phase =
                  IF groups[t.user] = {Joined(t.intent)} THEN "complete" ELSE "record"]
    /\ UNCHANGED <<row, groups, claims, bounds>>

\* A refused call, or a timeout that leaves the change made or not.
RemoteFailure(w) ==
    LET t == task[w] IN
    /\ t.phase = "remote"
    /\ failures < MaxFailures
    /\ failures' = failures + 1
    /\ \/ UNCHANGED groups
       \/ t.step < 4 /\ groups' = [groups EXCEPT ![t.user] = RemoteEffect(t, @)]
    /\ task' = [task EXCEPT ![w].phase = "record"]
    /\ UNCHANGED <<row, claims, begun, interrupts>>

-----------------------------------------------------------------------------
(* The transaction that commits the outcome of a moderation request. *)

CanRecordFailure(t) == OwnsRow(t) /\ revision[t.user] < MaxRevision

RecordIdentityReconciliationFailure(r) ==
    LET t == task[r] IN
    \/ Conflict(r, "record", CanRecordFailure(t))
    \/ /\ t.phase = "record"
       /\ OwnsRow(t)
       /\ Advance(t.user, t.intent, FALSE)
       /\ Ends(r)
       /\ UNCHANGED <<suspension, session, groups, claims, bounds>>

\* Only the manual path checks its actor again before completing a removal.
CanCompleteRemoval(t) ==
    /\ OwnsRow(t)
    /\ EffectivelySuspended(t.user)
    /\ revision[t.user] < MaxRevision
    /\ t.origin = "manual" => t.actor \in ActiveAdministrators

CompleteIdentityRemoval(r) ==
    LET t == task[r] IN
    /\ t.phase = "complete" /\ t.intent = "removal_required"
    /\ \/ Conflict(r, "complete", CanCompleteRemoval(t))
       \/ /\ CanCompleteRemoval(t)
          /\ Advance(t.user, "suspended", TRUE)
          /\ Ends(r)
          /\ UNCHANGED <<suspension, session, groups, claims, bounds>>

CanCompleteReinstatement(t) ==
    /\ OwnsRow(t)
    /\ EffectivelySuspended(t.user)
    /\ revision[t.user] < MaxRevision
    /\ MayModerate(t.actor, t.user)
    /\ t.origin = "manual" => t.actor \in ActiveAdministrators

\* The snapshot of the statement that completes a reinstatement; the manual
\* path has its actor locked and takes both steps at once.
AuthorizeCompletion(r) ==
    LET t == task[r] IN
    /\ t.phase = "complete" /\ t.origin = "reinstate"
    /\ \/ /\ CanCompleteReinstatement(t)
          /\ task' = [task EXCEPT ![r].phase = "commit"]
          /\ UNCHANGED <<row, groups, claims, bounds>>
       \/ Conflict(r, "complete", CanCompleteReinstatement(t))

CanCommitReinstatement(t) ==
    /\ OwnsRow(t)
    /\ suspension[t.user] # "none"
    /\ revision[t.user] < MaxRevision

CompleteIdentityReinstatement(r) ==
    LET t == task[r]
        allowed == IF t.phase = "commit" THEN CanCommitReinstatement(t)
                                         ELSE CanCompleteReinstatement(t)
    IN
    /\ t.phase = "commit" \/ (t.phase = "complete" /\ t.origin = "manual")
    /\ t.intent = "grant_required"
    /\ \/ Conflict(r, t.phase, allowed)
       \/ /\ allowed
          /\ Advance(t.user, "accepted", TRUE)
          /\ suspension' = [suspension EXCEPT ![t.user] = "none"]
          /\ Ends(r)
          /\ UNCHANGED <<session, groups, claims, bounds>>

-----------------------------------------------------------------------------
(* The expiry worker. *)

\* Mutation of ExpiredCandidates: an identity once claimed is not claimed again.
CandidatesNotYetRequired ==
    {u \in Users : /\ suspension[u] = "expired"
                   /\ sync[u] \in {"removal_required", "suspended"}
                   /\ due[u]
                   /\ revision[u] < MaxRevision}

ExpiredCandidates ==
    {u \in Users : /\ suspension[u] = "expired"
                   /\ sync[u] \in RequiredStates \cup {"suspended"}
                   /\ due[u]
                   /\ revision[u] < MaxRevision}

\* Mutation of the claim: it is not a revision of its own.
ClaimWithoutRevision(w) ==
    /\ task[w] = Idle /\ claims[w] = {}
    /\ \E batch \in SUBSET ExpiredCandidates :
         /\ batch # {}
         /\ Cardinality(batch) <= ClaimLimit
         /\ sync' = [u \in Users |-> IF u \in batch THEN "grant_required" ELSE sync[u]]
         /\ due' = [u \in Users |-> due[u] /\ u \notin batch]
         /\ claims' = [claims EXCEPT ![w] =
                         {[user |-> u, revision |-> revision[u]] : u \in batch}]
    /\ UNCHANGED <<suspension, revision, session, groups, task, bounds>>

\* One transaction claims the batch; the advisory lock keeps another out.  Rows
\* that others hold are skipped, so that the batch may be smaller than the limit.
ClaimExpiredIdentityReconciliations(w) ==
    /\ task[w] = Idle /\ claims[w] = {}
    /\ \E batch \in SUBSET ExpiredCandidates :
         /\ batch # {}
         /\ Cardinality(batch) <= ClaimLimit
         /\ sync' = [u \in Users |-> IF u \in batch THEN "grant_required" ELSE sync[u]]
         /\ revision' = [u \in Users |-> IF u \in batch THEN revision[u] + 1 ELSE revision[u]]
         /\ due' = [u \in Users |-> due[u] /\ u \notin batch]
         /\ claims' = [claims EXCEPT ![w] =
                         {[user |-> u, revision |-> revision[u] + 1] : u \in batch}]
    /\ UNCHANGED <<suspension, session, groups, task, bounds>>

HandleClaim(w) ==
    /\ task[w] = Idle
    /\ \E c \in claims[w] :
         /\ claims' = [claims EXCEPT ![w] = @ \ {c}]
         /\ task' = [task EXCEPT ![w] =
                       [NewTask("expiry", "grant_required", c.user, w)
                          EXCEPT !.revision = c.revision]]
    /\ UNCHANGED <<row, groups, bounds>>

\* The claim no longer matches.  The superseded audit wants a newer revision;
\* without one it is an error, and the tick drops its remaining claims.
Superseded(w, phase, matches) ==
    /\ task[w].phase = phase
    /\ ~matches
    /\ Ends(w)
    /\ claims' = IF revision[task[w].user] > task[w].revision
                   THEN claims ELSE [claims EXCEPT ![w] = {}]
    /\ UNCHANGED <<row, groups, bounds>>

RecordExpiredIdentityReconciliationFailure(w) ==
    LET t == task[w] IN
    \/ Superseded(w, "record", CanRecordFailure(t))
    \/ /\ t.phase = "record"
       /\ OwnsRow(t)
       /\ Advance(t.user, "grant_required", FALSE)
       /\ Ends(w)
       /\ UNCHANGED <<suspension, session, groups, claims, bounds>>

CanCompleteExpired(t) ==
    /\ OwnsRow(t)
    /\ suspension[t.user] = "expired"
    /\ revision[t.user] < MaxRevision

CompleteExpiredIdentityReconciliation(w) ==
    LET t == task[w] IN
    \/ Superseded(w, "complete", CanCompleteExpired(t))
    \/ /\ t.phase = "complete"
       /\ CanCompleteExpired(t)
       /\ Advance(t.user, "accepted", TRUE)
       /\ suspension' = [suspension EXCEPT ![t.user] = "none"]
       /\ Ends(w)
       /\ UNCHANGED <<session, groups, claims, bounds>>

-----------------------------------------------------------------------------
(* Sessions, time, and lost work. *)

\* Mutation of CreateInitialSession: the sync state is not looked at.
CreateSessionForAnyUser(u) ==
    /\ ~session[u]
    /\ session' = [session EXCEPT ![u] = TRUE]
    /\ UNCHANGED <<suspension, sync, revision, due, groups, task, claims, bounds>>

\* The login transaction updates the user row only while it is accepted.
CreateInitialSession(u) ==
    /\ sync[u] = "accepted"
    /\ ~session[u]
    /\ session' = [session EXCEPT ![u] = TRUE]
    /\ UNCHANGED <<suspension, sync, revision, due, groups, task, claims, bounds>>

RevokeSession(u) ==
    /\ session[u]
    /\ session' = [session EXCEPT ![u] = FALSE]
    /\ UNCHANGED <<suspension, sync, revision, due, groups, task, claims, bounds>>

SuspensionExpires(u) ==
    /\ suspension[u] = "finite"
    /\ suspension' = [suspension EXCEPT ![u] = "expired"]
    /\ UNCHANGED <<sync, revision, due, session, groups, task, claims, bounds>>

BackoffElapses(u) ==
    /\ ~due[u]
    /\ due' = [due EXCEPT ![u] = TRUE]
    /\ UNCHANGED <<suspension, sync, revision, session, groups, task, claims, bounds>>

\* A crash loses every task at once, a failed transaction or a cancelled
\* context one of them.
Interrupt(lost) ==
    /\ interrupts < MaxInterrupts
    /\ \E w \in lost : task[w] # Idle
    /\ interrupts' = interrupts + 1
    /\ task' = [w \in Workers |-> IF w \in lost THEN Idle ELSE task[w]]
    /\ claims' = [w \in Reconcilers |-> IF w \in lost THEN {} ELSE claims[w]]
    /\ UNCHANGED <<row, groups, begun, failures>>

-----------------------------------------------------------------------------
BeginRequest(r) ==
    \E a, u \in Users : \/ SuspendUser(r, a, u)
                        \/ AuthorizeReinstatement(r, a, u)
                        \/ BeginManualIdentityReconciliation(r, a, u)

RemoteStep(w) == RemoteCall(w) \/ RemoteVerify(w)

RequestStep(r) ==
    \/ BeginIdentityReinstatement(r)
    \/ LoadSuspendedIdentityTarget(r)
    \/ RemoteStep(r)
    \/ RecordIdentityReconciliationFailure(r)
    \/ CompleteIdentityRemoval(r)
    \/ AuthorizeCompletion(r)
    \/ CompleteIdentityReinstatement(r)

ReconcilerStep(w) ==
    \/ ClaimExpiredIdentityReconciliations(w)
    \/ HandleClaim(w)
    \/ RemoteStep(w)
    \/ RecordExpiredIdentityReconciliationFailure(w)
    \/ CompleteExpiredIdentityReconciliation(w)

Next ==
    \/ \E r \in Requests : BeginRequest(r) \/ RequestStep(r)
    \/ \E w \in Reconcilers : ReconcilerStep(w)
    \/ \E w \in Workers : RemoteFailure(w)
    \/ \E u \in Users : \/ CreateInitialSession(u) \/ RevokeSession(u)
                        \/ SuspensionExpires(u) \/ BackoffElapses(u)
    \/ \E lost \in SUBSET Workers : Interrupt(lost)

Spec == Init /\ [][Next]_vars

\* A handler that has begun and a ticking worker keep running, and time passes.
Fairness ==
    /\ \A r \in Requests : WF_vars(RequestStep(r))
    /\ \A w \in Reconcilers : WF_vars(ReconcilerStep(w))
    /\ \A u \in Users : WF_vars(SuspensionExpires(u)) /\ WF_vars(BackoffElapses(u))

FairSpec == Spec /\ Fairness

-----------------------------------------------------------------------------
(* What the protocol guarantees. *)

\* A session that is not revoked belongs to a user who is accepted and not
\* suspended: suspension revokes every session, and no path from suspension
\* back to acceptance (suspension.go, expiry_reconciliation.go) revives one.
SessionsFollowAccess == \A u \in Users : session[u] => InGoodStanding(u)

\* A suspension in force denies access on its own: no interleaving of
\* completions leaves a suspended user in the accepted state.
SuspensionDenies == \A u \in Users : EffectivelySuspended(u) => sync[u] # "accepted"

\* Moderators suspending each other concurrently never leave the Board
\* without an active administrator (CountActiveAdministrators).
AdministratorContinuity == ActiveAdministrators # {}

Running(w) == task[w] # Idle

TaskOwns(t) ==
    /\ t.revision <= revision[t.user]
    /\ t.revision = revision[t.user] =>
         /\ sync[t.user] = t.intent
         /\ suspension[t.user] # "none"
         /\ t.origin = "expiry" => suspension[t.user] = "expired"

ClaimOwns(c) ==
    /\ c.revision <= revision[c.user]
    /\ c.revision = revision[c.user] =>
         sync[c.user] = "grant_required" /\ suspension[c.user] = "expired"

\* The revision a request or a claim committed identifies it.  While the row
\* still carries that revision, the row asks for exactly what the holder is
\* doing, so that a late completion can only conflict, never be mistaken for
\* the completion of somebody else's intent.
IntentOwnsRow ==
    /\ \A w \in Workers : Running(w) => TaskOwns(task[w])
    /\ \A w \in Reconcilers : \A c \in claims[w] : ClaimOwns(c)

\* No two tasks or claims in progress hold the same revision of one user.
IntentsAreDistinct ==
    /\ \A v, w \in Workers :
         Running(v) /\ Running(w) /\ v # w /\ task[v].phase # "begin" =>
           task[v].user # task[w].user \/ task[v].revision # task[w].revision
    /\ \A v \in Workers, w \in Reconcilers : Running(v) =>
         [user |-> task[v].user, revision |-> task[v].revision] \notin claims[w]
    /\ \A v, w \in Reconcilers : v # w => claims[v] \cap claims[w] = {}

\* A user who has access again had the remote acceptance verified after the
\* latest denial, by the task whose intent the row carries.
Confirmed ==
    {u \in Users : \E w \in Workers :
        /\ task[w].phase \in {"complete", "commit"}
        /\ task[w].user = u
        /\ task[w].intent = "grant_required"
        /\ OwnsRow(task[w])}

Access == INSTANCE BoardAccess WITH
    granted   <- {u \in Users : sync[u] = "accepted"},
    session   <- {u \in Users : session[u]},
    accepted  <- {u \in Users : groups[u] = {"accepted"}},
    confirmed <- Confirmed

\* The protocol implements the abstract promise of module BoardAccess.
ImplementsBoardAccess == Access!Spec

\* An expired suspension is lifted by the worker, whatever fails in between
\* finitely often, unless a moderator suspends the user again first.
ExpiredSuspensionIsLifted ==
    \A u \in Users : (suspension[u] = "expired" /\ sync[u] # "accepted")
                        ~> (sync[u] = "accepted" \/ suspension[u] = "open")

\* docs/prd.md, ID-016: a partial or uncertain outcome keeps the restrictive
\* state and stays retryable.  When nothing runs, either the two systems agree
\* about a user or the row asks for a reconciliation.
UncertainOutcomeIsRetryable ==
    (\A w \in Workers : ~Running(w)) /\ (\A w \in Reconcilers : claims[w] = {}) =>
        \A u \in Users :
            \/ sync[u] \in RequiredStates
            \/ sync[u] = "accepted" /\ groups[u] = {"accepted"}
            \/ sync[u] = "suspended" /\ groups[u] = {"suspended"}

=============================================================================
