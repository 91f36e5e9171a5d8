----------------------------- MODULE Governance -----------------------------
(***************************************************************************)
(* Who administers the board.  The first administrator is made once, by    *)
(* the operator's command or by the setup page; after that administrators  *)
(* change roles and suspend accounts, and one of them must always be left. *)
(* Every one of these transactions takes the governance row first and the  *)
(* rows of actor and target, in ascending order of their ids, after it.    *)
(* A change of a group membership takes the rows of the users only, and a  *)
(* reinstatement nothing but the row it writes.                            *)
(*                                                                         *)
(* A transaction is a record in task; a row lock is held from the step     *)
(* that takes it to the commit or the rollback, so that a step between     *)
(* two others is one the database really lets through.                     *)
(***************************************************************************)
EXTENDS Naturals, FiniteSets

CONSTANTS
    Users,        \* ids of the forum accounts
    First,        \* the account of BOOTSTRAP_ADMIN_SUBJECT
    Tasks,        \* slots for transactions that run concurrently
    NoTask,       \* an unlocked row
    MaxRevision   \* largest administration revision (2^63 - 1 in the code)

ASSUME UsersAssumption == Users \subseteq Nat /\ IsFiniteSet(Users) /\ First \in Users
ASSUME TasksAssumption == NoTask \notin Tasks
ASSUME RevisionAssumption == MaxRevision \in Nat \ {0}

VARIABLES
    role,        \* users.role
    suspended,   \* users.suspended_at; an account with it is not in 'accepted'
    revision,    \* users.administration_revision
    bootstraps,  \* bootstrap_administrator rows of moderation_actions
    session,     \* whether First has a session that is not revoked
    governance,  \* the transaction that holds the governance row
    locked,      \* the transaction that holds the row of each user
    task         \* what each slot is doing

users == <<role, suspended, revision>>
locks == <<governance, locked>>
vars == <<users, bootstraps, session, locks, task>>

Roles == {"member", "moderator", "administrator"}
Setups == {"bootstrap", "claim"}
Locking == {"role", "suspend", "membership"}  \* forms that lock actor and target
Idle == [kind |-> "idle"]

\* A role change asks for "to"; every form carries the actor's role of its
\* session and the target's role and revision of the page it was rendered from.
Forms == [kind : {"role", "suspend", "membership", "reinstate"}, step : {"governance", "first", "second", "check", "write"},
          actor : Users, as : Roles, target : Users, to : Roles, was : Roles,
          revision : 1..MaxRevision]
SetupCalls == [kind : Setups, step : {"governance", "check", "write"}, target : Users]

TypeOK ==
    /\ role \in [Users -> Roles]
    /\ suspended \in [Users -> BOOLEAN]
    /\ revision \in [Users -> 1..MaxRevision]
    /\ bootstraps \in Nat
    /\ session \in BOOLEAN
    /\ governance \in Tasks \cup {NoTask}
    /\ locked \in [Users -> Tasks \cup {NoTask}]
    /\ task \in [Tasks -> {Idle} \cup Forms \cup SetupCalls]

Init ==
    /\ role = [u \in Users |-> "member"]
    /\ suspended = [u \in Users |-> FALSE]
    /\ revision = [u \in Users |-> 1]
    /\ bootstraps = 0
    /\ session = FALSE
    /\ governance = NoTask
    /\ locked = [u \in Users |-> NoTask]
    /\ task = [t \in Tasks |-> Idle]

ActiveAdministrators == {u \in Users : role[u] = "administrator" /\ ~suspended[u]}

-----------------------------------------------------------------------------
(* Transactions begin, take their locks, and end. *)

\* The setup page is an unlocked read of the same two counts; it only decides
\* whether the form is shown.
LoadInitialAdministratorSetup(t) ==
    /\ task[t] = Idle
    /\ bootstraps = 0 /\ ActiveAdministrators = {}
    /\ session
    /\ task' = [task EXCEPT ![t] = [kind |-> "claim", step |-> "governance", target |-> First]]
    /\ UNCHANGED <<users, bootstraps, session, locks>>

\* The operator's command, at any time.
StartBootstrap(t, u) ==
    /\ task[t] = Idle
    /\ task' = [task EXCEPT ![t] = [kind |-> "bootstrap", step |-> "governance", target |-> u]]
    /\ UNCHANGED <<users, bootstraps, session, locks>>

\* The page an administrator or a moderator submits.  A form may be submitted
\* long after the page was rendered: nothing else in the state remembers it.
StartForm(t, kind, a, u, to) ==
    /\ task[t] = Idle
    /\ ~suspended[a]
    /\ \/ role[a] = "administrator"
       \/ kind = "suspend" /\ role[a] = "moderator"
    /\ kind # "membership" => a # u
    /\ IF kind = "role" THEN to # role[u] ELSE to = role[u]
    /\ task' = [task EXCEPT ![t] =
                  [kind |-> kind, step |-> IF kind = "membership" THEN "first" ELSE "governance",
                   actor |-> a, as |-> role[a], target |-> u, to |-> to, was |-> role[u],
                   revision |-> revision[u]]]
    /\ UNCHANGED <<users, bootstraps, session, locks>>

\* Mutation of the lock: the row is read, not locked.
ReadGovernanceState(t) ==
    /\ task[t] # Idle /\ task[t].step = "governance"
    /\ task' = [task EXCEPT ![t].step = IF task[t].kind \in Setups THEN "check" ELSE "first"]
    /\ UNCHANGED <<users, bootstraps, session, locks>>

LockGovernanceState(t) ==
    /\ task[t] # Idle /\ task[t].step = "governance"
    /\ governance = NoTask
    /\ governance' = t
    /\ task' = [task EXCEPT ![t].step = IF task[t].kind \in Setups THEN "check" ELSE "first"]
    /\ UNCHANGED <<users, bootstraps, session, locked>>

Lower(x) == IF x.target < x.actor THEN x.target ELSE x.actor
Higher(x) == IF x.target < x.actor THEN x.actor ELSE x.target

\* Mutation of the order: the actor's row before the target's.
ActorThenTarget(x) == IF x.step = "first" THEN x.actor ELSE x.target

\* The row a transaction asks for next.
NextUser(x) == IF x.step = "first" THEN Lower(x) ELSE Higher(x)

LockAdministrationUsers(t) ==
    /\ task[t] # Idle /\ task[t].step \in {"first", "second"}
    /\ locked[NextUser(task[t])] \in {NoTask, t}
    /\ locked' = [locked EXCEPT ![NextUser(task[t])] = t]
    /\ task' = [task EXCEPT ![t].step = IF @ = "first" THEN "second" ELSE "check"]
    /\ UNCHANGED <<users, bootstraps, session, governance>>

End(t) ==
    /\ governance' = IF governance = t THEN NoTask ELSE governance
    /\ locked' = [u \in Users |-> IF locked[u] = t THEN NoTask ELSE locked[u]]
    /\ task' = [task EXCEPT ![t] = Idle]

\* A failed check, a lock or statement timeout (250 ms, 2 s), a lost
\* connection or a process that stops: nothing of the transaction remains.
Rollback(t) ==
    /\ task[t] # Idle
    /\ End(t)
    /\ UNCHANGED <<users, bootstraps, session>>

-----------------------------------------------------------------------------
(* The first administrator. *)

CheckSetupOpen(t) ==
    /\ task[t] # Idle /\ task[t].kind \in Setups /\ task[t].step = "check"
    /\ bootstraps = 0 /\ ActiveAdministrators = {}
    /\ task' = [task EXCEPT ![t].step = "write"]
    /\ UNCHANGED <<users, bootstraps, session, locks>>

\* One statement locks the account, gives it the role and writes the audit.
BootstrapAdministrator(t) ==
    /\ task[t] # Idle /\ task[t].kind = "bootstrap" /\ task[t].step = "write"
    /\ LET u == task[t].target IN
         /\ locked[u] = NoTask
         /\ ~suspended[u]
         /\ role' = [role EXCEPT ![u] = "administrator"]
    /\ bootstraps' = bootstraps + 1
    /\ End(t)
    /\ UNCHANGED <<suspended, revision, session>>

\* The claim needs the claimant's own session and ends it.
ClaimInitialAdministrator(t) ==
    /\ task[t] # Idle /\ task[t].kind = "claim" /\ task[t].step = "write"
    /\ session /\ locked[First] = NoTask
    /\ role[First] = "member" /\ ~suspended[First]
    /\ role' = [role EXCEPT ![First] = "administrator"]
    /\ session' = FALSE
    /\ bootstraps' = bootstraps + 1
    /\ End(t)
    /\ UNCHANGED <<suspended, revision>>

-----------------------------------------------------------------------------
(* Roles, suspensions and memberships. *)

\* Mutation of the check: the session's word is taken for the actor's authority.
TrustedActor(x) == x.as = "administrator" \/ x.kind = "suspend"

\* The actor is still what the session said and may still act.
ValidActor(x) ==
    /\ role[x.actor] = x.as /\ ~suspended[x.actor]
    /\ \/ x.as = "administrator"
       \/ x.kind = "suspend" /\ role[x.target] = "member"

\* The target is not suspended at the form's reading of the clock, which is
\* older than its locks: a suspension written since the page may begin after it.
\* Only a suspension can still commit then, as the others carry the revision.
NotSuspendedYet(x) ==
    suspended[x.target] => x.kind = "suspend" /\ revision[x.target] > x.revision

\* Mutation of the check: the revision of the form is ignored.
AnyRevision(x) ==
    /\ NotSuspendedYet(x)
    /\ x.kind = "role" => role[x.target] = x.was

\* Mutation of the check: the last revision is not refused.
ValidUntilOverflow(x) ==
    /\ NotSuspendedYet(x)
    /\ x.kind # "suspend" => revision[x.target] = x.revision
    /\ x.kind = "role" => role[x.target] = x.was

\* The target is as the page showed it.  A suspension carries no revision: it
\* takes the revision of the row it has locked.
ValidTarget(x) ==
    /\ NotSuspendedYet(x)
    /\ revision[x.target] < MaxRevision
    /\ x.kind # "suspend" => revision[x.target] = x.revision
    /\ x.kind = "role" => role[x.target] = x.was

\* Only an administrator that stops being one has to leave another behind.
LeavesAdministrator(x) ==
    \/ x.kind = "membership"
    \/ role[x.target] # "administrator"
    \/ x.kind = "role" /\ x.to = "administrator"
    \/ Cardinality(ActiveAdministrators) > 1

\* Mutation of the checks: the revision of the form stands for everything.
CheckTargetOnly(t) ==
    /\ task[t] # Idle /\ task[t].kind \in Locking /\ task[t].step = "check"
    /\ ValidTarget(task[t])
    /\ task' = [task EXCEPT ![t].step = "write"]
    /\ UNCHANGED <<users, bootstraps, session, locks>>

CheckForm(t) ==
    /\ task[t] # Idle /\ task[t].kind \in Locking /\ task[t].step = "check"
    /\ ValidActor(task[t]) /\ ValidTarget(task[t]) /\ LeavesAdministrator(task[t])
    /\ task' = [task EXCEPT ![t].step = "write"]
    /\ UNCHANGED <<users, bootstraps, session, locks>>

\* The writes bump the revision, and all but a membership end the sessions.
WriteForm(t) ==
    /\ task[t] # Idle /\ task[t].kind \in Locking /\ task[t].step = "write"
    /\ LET x == task[t] IN
         /\ role' = IF x.kind = "role" THEN [role EXCEPT ![x.target] = x.to] ELSE role
         /\ suspended' = [suspended EXCEPT ![x.target] = @ \/ x.kind = "suspend"]
         /\ revision' = [revision EXCEPT ![x.target] = @ + 1]
         /\ session' = (session /\ (x.target = First => x.kind = "membership"))
    /\ End(t)
    /\ UNCHANGED bootstraps

\* The last statement of a reinstatement reads its actor without a lock, in
\* the snapshot it starts from, and then waits for the target's row.
SnapshotReinstatement(t, a, u) ==
    /\ task[t] = Idle
    /\ ~suspended[a] /\ role[a] \in {"moderator", "administrator"}
    /\ suspended[u]
    /\ task' = [task EXCEPT ![t] =
                  [kind |-> "reinstate", step |-> "write", actor |-> a, as |-> role[a],
                   target |-> u, to |-> role[u], was |-> role[u], revision |-> revision[u]]]
    /\ UNCHANGED <<users, bootstraps, session, locks>>

CompleteReinstatement(t) ==
    /\ task[t] # Idle /\ task[t].kind = "reinstate"
    /\ LET x == task[t] IN
         /\ locked[x.target] = NoTask
         /\ suspended[x.target]
         /\ x.as = "administrator" \/ role[x.target] = "member"
         /\ revision[x.target] = x.revision /\ x.revision < MaxRevision
         /\ suspended' = [suspended EXCEPT ![x.target] = FALSE]
         /\ revision' = [revision EXCEPT ![x.target] = @ + 1]
    /\ End(t)
    /\ UNCHANGED <<role, bootstraps, session>>

-----------------------------------------------------------------------------

\* First signs in (the callback updates, and so waits for, the user's row).
Login ==
    /\ ~session /\ ~suspended[First] /\ locked[First] = NoTask
    /\ session' = TRUE
    /\ UNCHANGED <<users, bootstraps, locks, task>>

Logout ==
    /\ session
    /\ session' = FALSE
    /\ UNCHANGED <<users, bootstraps, locks, task>>

Next ==
    \/ Login \/ Logout
    \/ \E t \in Tasks :
         \/ LoadInitialAdministratorSetup(t)
         \/ \E u \in Users : StartBootstrap(t, u)
         \/ \E a, u \in Users, to \in Roles, kind \in Locking :
              StartForm(t, kind, a, u, to)
         \/ LockGovernanceState(t) \/ LockAdministrationUsers(t)
         \/ CheckSetupOpen(t) \/ BootstrapAdministrator(t) \/ ClaimInitialAdministrator(t)
         \/ CheckForm(t) \/ WriteForm(t)
         \/ \E a, u \in Users : SnapshotReinstatement(t, a, u)
         \/ CompleteReinstatement(t)
         \/ Rollback(t)

Spec == Init /\ [][Next]_vars

-----------------------------------------------------------------------------
(* Properties. *)

\* The setup is closed for ever by the first success, however the operator's
\* command and the setup page race, and whatever became of the administrator.
SingleBootstrap == bootstraps <= 1

\* Once there has been an administrator there is always an active one, whatever
\* demotions, suspensions and reinstatements overlap.
AdministratorContinuity == bootstraps > 0 => ActiveAdministrators # {}

\* t waits for a lock that s holds.
Waits(t, s) ==
    /\ t # s /\ task[t] # Idle
    /\ \/ task[t].step = "governance" /\ governance = s
       \/ task[t].step \in {"first", "second"} /\ locked[NextUser(task[t])] = s
       \/ task[t].step = "write" /\ task[t].kind \notin Locking /\ locked[task[t].target] = s

\* Transactions never wait for each other in a ring, with or without the
\* governance row: none of them needs the lock timeout to go on.
NoWaitCycle ==
    \A ring \in (SUBSET Tasks) \ {{}} : ~ \A t \in ring : \E s \in ring : Waits(t, s)

\* At the instant a form commits, its actor still is what its session said and
\* may still act, and nobody has suspended the target, unless the form suspends
\* it too and was under way: an actor demoted or suspended meanwhile changes
\* nothing, and a suspended target gets no role and no membership.
FormsNeedAuthority ==
    [][\A t \in Tasks :
         /\ task[t] # Idle /\ task[t].kind \in Locking
         /\ task'[t] = Idle /\ users' # users
         => /\ ~suspended[task[t].actor] /\ role[task[t].actor] = task[t].as
            /\ task[t].as = "administrator" \/ role[task[t].target] = "member"
            /\ suspended[task[t].target] =>
                 task[t].kind = "suspend" /\ revision[task[t].target] > task[t].revision]_vars

\* A form is applied to the very revision it was rendered from: a change made
\* between the page and the commit, by whatever path, makes it a conflict.
NoStaleForm ==
    [][\A t \in Tasks :
         /\ task[t] # Idle /\ task[t].kind \in {"role", "membership", "reinstate"}
         /\ task'[t] = Idle /\ users' # users
         => revision[task[t].target] = task[t].revision]_vars

=============================================================================
