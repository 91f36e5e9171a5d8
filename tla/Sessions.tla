------------------------------ MODULE Sessions ------------------------------
(***************************************************************************)
(* The browser sessions of one account.  A sign-in or a revalidation goes  *)
(* through Authentik: the board writes an attempt, the callback consumes   *)
(* it, exchanges the code with no lock held, and then creates a session or *)
(* replaces the one the attempt was made for.  Meanwhile requests use the  *)
(* sessions, the user signs out, administrators revoke sessions, and role  *)
(* changes and suspensions revoke all of them.                             *)
(*                                                                         *)
(* A call is a record in task.  It reads the clock once, at its start, and *)
(* uses that reading in every statement after it.  Locks follow from the   *)
(* steps: a rotation holds its session and then wants the user, the others *)
(* hold the user and then want the sessions they revoke.                   *)
(***************************************************************************)
EXTENDS Naturals, Sequences

CONSTANTS
    Tasks,         \* slots for calls that run concurrently
    Idle,          \* site_settings.session_idle_seconds
    MaxAge,        \* the longest life of a session
    MaxTime,       \* bound on the clock
    MaxAttempts,   \* bound on the attempts
    MaxSessions,   \* bound on the sessions
    MaxRevision    \* bound on the account's revision

ASSUME TimesAssumption == Idle \in Nat \ {0} /\ MaxAge \in Nat /\ Idle <= MaxAge
ASSUME BoundsAssumption ==
    MaxTime \in Nat /\ MaxAttempts \in Nat /\ MaxSessions \in Nat /\ MaxRevision \in Nat \ {0}

VARIABLES
    now,        \* the application's clock
    accepted,   \* the account is in sync state 'accepted' and not suspended
    revision,   \* users.administration_revision
    since,      \* the revision of the last role change, suspension or reinstatement
    attempts,   \* rows of oidc_login_attempts
    sessions,   \* rows of sessions
    task        \* what each slot is doing

account == <<accepted, revision, since>>
vars == <<now, account, attempts, sessions, task>>

Free == [kind |-> "free"]
Touch == Idle \div 2   \* the code takes at most five minutes
Revocations == {"change", "revoke_all", "revoke_one"}
Ids == 1..Len(sessions)

\* session = 0 marks a sign-in.
Attempts == [session : 0..MaxSessions, open : BOOLEAN]

\* expires_at is issued + MaxAge and validated_at never leaves issued.  login
\* (the session of the sign-in it descends from), attempt and under (since at
\* the insert) are not columns: properties need them.
SessionRows == [login : 1..MaxSessions, attempt : 1..MaxAttempts, under : 1..MaxRevision,
                issued : 0..MaxTime, seen : 0..MaxTime, revoked : BOOLEAN]

Calls ==
    [kind : {"callback"}, step : {"exchange", "begin", "locked"}, at : 0..MaxTime,
     attempt : 1..MaxAttempts, session : 0..MaxSessions]
    \cup [kind : {"touch"}, at : 0..MaxTime, session : 1..MaxSessions]
    \cup [kind : Revocations, step : {"begin", "locked"}, at : 0..MaxTime,
          session : 0..MaxSessions, revision : 1..MaxRevision, to : BOOLEAN]

TypeOK ==
    /\ now \in 0..MaxTime
    /\ accepted \in BOOLEAN
    /\ revision \in 1..MaxRevision /\ since \in 1..revision
    /\ attempts \in Seq(Attempts) /\ Len(attempts) <= MaxAttempts
    /\ sessions \in Seq(SessionRows) /\ Len(sessions) <= MaxSessions
    /\ \A s \in Ids : sessions[s].issued <= sessions[s].seen
    /\ task \in [Tasks -> {Free} \cup Calls]

Init ==
    /\ now = 0
    /\ accepted \in BOOLEAN
    /\ revision = 1 /\ since = 1
    /\ attempts = <<>> /\ sessions = <<>>
    /\ task = [t \in Tasks |-> Free]

\* The session passes the lookup of a request or of a rotation whose clock
\* reading is at.
Active(s, at) ==
    /\ ~sessions[s].revoked
    /\ sessions[s].issued <= at /\ sessions[s].seen <= at
    /\ sessions[s].issued + MaxAge > at
    /\ sessions[s].seen + Idle > at

UserLocked == \E t \in Tasks : task[t].kind \in Revocations /\ task[t].step = "locked"
SessionLocked(s) ==
    \E t \in Tasks : task[t].kind = "callback" /\ task[t].step = "locked" /\ task[t].session = s

Revoke(S) == [s \in Ids |-> [sessions[s] EXCEPT !.revoked = @ \/ s \in S]]
End(t) == task' = [task EXCEPT ![t] = Free]

Tick ==
    /\ now < MaxTime
    /\ now' = now + 1
    /\ UNCHANGED <<account, attempts, sessions, task>>

\* An error, a timeout, a deadlock's victim or a process that stops: what the
\* call had committed stays, its transaction leaves nothing.
Rollback(t) ==
    /\ task[t] # Free
    /\ End(t)
    /\ UNCHANGED <<now, account, attempts, sessions>>

-----------------------------------------------------------------------------
(* Sign-in and revalidation. *)

BeginLogin ==
    /\ Len(attempts) < MaxAttempts
    /\ attempts' = Append(attempts, [session |-> 0, open |-> TRUE])
    /\ UNCHANGED <<now, account, sessions, task>>

\* The session is the one the request was authenticated with.
BeginRevalidation(s) ==
    /\ Len(attempts) < MaxAttempts
    /\ accepted /\ Active(s, now)
    /\ attempts' = Append(attempts, [session |-> s, open |-> TRUE])
    /\ UNCHANGED <<now, account, sessions, task>>

\* Mutation of the statement: the attempt is read and marked without a test.
ConsumeTwice(t, a) ==
    /\ task[t] = Free
    /\ attempts' = [attempts EXCEPT ![a].open = FALSE]
    /\ task' = [task EXCEPT ![t] = [kind |-> "callback", step |-> "exchange", at |-> now,
                                    attempt |-> a, session |-> attempts[a].session]]
    /\ UNCHANGED <<now, account, sessions>>

\* One conditional update; the attempt stays consumed if the callback fails.
ConsumeLoginAttempt(t, a) ==
    /\ task[t] = Free
    /\ attempts[a].open
    /\ attempts' = [attempts EXCEPT ![a].open = FALSE]
    /\ task' = [task EXCEPT ![t] = [kind |-> "callback", step |-> "exchange", at |-> now,
                                    attempt |-> a, session |-> attempts[a].session]]
    /\ UNCHANGED <<now, account, sessions>>

\* The exchange ends.  The callback reads the clock and its transaction begins;
\* that of a rotation looks its session up, with the old token.
Exchanged(t) ==
    /\ task[t].kind = "callback" /\ task[t].step = "exchange"
    /\ task[t].session # 0 => accepted /\ Active(task[t].session, now)
    /\ task' = [task EXCEPT ![t].step = "begin", ![t].at = now]
    /\ UNCHANGED <<now, account, attempts, sessions>>

NewSession(x, login) ==
    [login |-> login, attempt |-> x.attempt, under |-> since,
     issued |-> x.at, seen |-> x.at, revoked |-> FALSE]

\* The update of the profile waits for the user's row and refuses an account
\* that is not accepted.
CreateInitialSession(t) ==
    /\ task[t].kind = "callback" /\ task[t].step = "begin" /\ task[t].session = 0
    /\ ~UserLocked /\ accepted
    /\ Len(sessions) < MaxSessions
    /\ sessions' = Append(sessions, NewSession(task[t], Len(sessions) + 1))
    /\ End(t)
    /\ UNCHANGED <<now, account, attempts>>

\* The lookup locks the session first and then waits for the user.
LockSession(t) ==
    /\ task[t].kind = "callback" /\ task[t].step = "begin" /\ task[t].session # 0
    /\ ~SessionLocked(task[t].session)
    /\ task' = [task EXCEPT ![t].step = "locked"]
    /\ UNCHANGED <<now, account, attempts, sessions>>

\* Mutation of the transaction: what the lookup saw before it waited stands,
\* and nobody counts the rows the last statement revoked.
RotateOnFirstSight(t) ==
    /\ task[t].kind = "callback" /\ task[t].step = "locked"
    /\ ~UserLocked /\ accepted
    /\ Len(sessions) < MaxSessions
    /\ LET s == task[t].session IN
         sessions' = Append(Revoke({s}), NewSession(task[t], sessions[s].login))
    /\ End(t)
    /\ UNCHANGED <<now, account, attempts>>

\* Mutation of the transaction: the old session is left to run out.
RotateWithoutRevoking(t) ==
    /\ task[t].kind = "callback" /\ task[t].step = "locked"
    /\ ~UserLocked /\ accepted
    /\ Len(sessions) < MaxSessions
    /\ LET s == task[t].session IN
         /\ Active(s, task[t].at)
         /\ sessions' = Append(sessions, NewSession(task[t], sessions[s].login))
    /\ End(t)
    /\ UNCHANGED <<now, account, attempts>>

\* Both rows are locked and the conditions of the lookup are evaluated again.
RotateSession(t) ==
    /\ task[t].kind = "callback" /\ task[t].step = "locked"
    /\ ~UserLocked /\ accepted
    /\ Len(sessions) < MaxSessions
    /\ LET s == task[t].session IN
         /\ Active(s, task[t].at)
         /\ sessions' = Append(Revoke({s}), NewSession(task[t], sessions[s].login))
    /\ End(t)
    /\ UNCHANGED <<now, account, attempts>>

-----------------------------------------------------------------------------
(* Requests and sign-out. *)

\* A request whose session has not been seen for a while will write to it.  (A
\* request that reads the clock, waits, and then finds a later last_seen_at is
\* refused; here the clock and the row are read together.)
Authenticate(t, s) ==
    /\ task[t] = Free
    /\ accepted /\ Active(s, now)
    /\ sessions[s].seen + Touch <= now
    /\ task' = [task EXCEPT ![t] = [kind |-> "touch", at |-> now, session |-> s]]
    /\ UNCHANGED <<now, account, attempts, sessions>>

\* Mutation of the statement: the conditions on last_seen_at are dropped.
TouchAlways(t) ==
    /\ task[t].kind = "touch"
    /\ LET s == task[t].session IN
         /\ ~SessionLocked(s)
         /\ sessions' = IF ~sessions[s].revoked /\ sessions[s].issued + MaxAge > task[t].at
                          THEN [sessions EXCEPT ![s].seen = task[t].at] ELSE sessions
    /\ End(t)
    /\ UNCHANGED <<now, account, attempts>>

TouchSession(t) ==
    /\ task[t].kind = "touch"
    /\ LET s == task[t].session
           touches == /\ ~sessions[s].revoked
                      /\ sessions[s].issued + MaxAge > task[t].at
                      /\ sessions[s].seen + Touch <= task[t].at
                      /\ sessions[s].seen < task[t].at
       IN /\ ~SessionLocked(s)
          /\ sessions' = IF touches THEN [sessions EXCEPT ![s].seen = task[t].at] ELSE sessions
    /\ End(t)
    /\ UNCHANGED <<now, account, attempts>>

\* Sign-out needs the token and nothing else.
RevokeSession(s) ==
    /\ ~sessions[s].revoked /\ ~SessionLocked(s)
    /\ sessions' = Revoke({s})
    /\ UNCHANGED <<now, account, attempts, task>>

-----------------------------------------------------------------------------
(* Revocations: role changes, suspensions, and the administrator's forms. *)

\* A form carries the revision of the page; to is what a change makes of
\* accepted; session is the one session of a handle.
StartRevocation(t, kind, s, to) ==
    /\ task[t] = Free
    /\ kind = "revoke_one" <=> s # 0
    /\ kind # "change" => to
    /\ task' = [task EXCEPT ![t] = [kind |-> kind, step |-> "begin", at |-> now,
                                    session |-> s, revision |-> revision, to |-> to]]
    /\ UNCHANGED <<now, account, attempts, sessions>>

LockUser(t) ==
    /\ task[t].kind \in Revocations /\ task[t].step = "begin"
    /\ ~UserLocked
    /\ task' = [task EXCEPT ![t].step = "locked"]
    /\ UNCHANGED <<now, account, attempts, sessions>>

\* Mutation of the statement: a change revokes what was active by its clock.
ChangeRevokesActive(t) ==
    /\ task[t].kind = "change" /\ task[t].step = "locked"
    /\ accepted /\ revision < MaxRevision
    /\ task[t].to => task[t].revision = revision
    /\ LET revoked == {s \in Ids : Active(s, task[t].at)} IN
         /\ \A s \in revoked : ~SessionLocked(s)
         /\ sessions' = Revoke(revoked)
    /\ accepted' = task[t].to
    /\ revision' = revision + 1 /\ since' = revision + 1
    /\ End(t)
    /\ UNCHANGED <<now, attempts>>

\* A role change or a suspension revokes whatever is not revoked yet.  Only a
\* role change is bound to the revision of the page.
ChangeAccount(t) ==
    /\ task[t].kind = "change" /\ task[t].step = "locked"
    /\ accepted /\ revision < MaxRevision
    /\ task[t].to => task[t].revision = revision
    /\ LET revoked == {s \in Ids : ~sessions[s].revoked} IN
         /\ \A s \in revoked : ~SessionLocked(s)
         /\ sessions' = Revoke(revoked)
    /\ accepted' = task[t].to
    /\ revision' = revision + 1 /\ since' = revision + 1
    /\ End(t)
    /\ UNCHANGED <<now, attempts>>

\* The forms revoke only what was active at their clock reading, and are
\* refused when that is nothing; all sessions also need the page's revision.
RevokeSessions(t) ==
    /\ task[t].kind \in {"revoke_all", "revoke_one"} /\ task[t].step = "locked"
    /\ task[t].kind = "revoke_all" => task[t].revision = revision
    /\ LET revoked == {s \in Ids : Active(s, task[t].at) /\ task[t].session \in {0, s}} IN
         /\ revoked # {} /\ \A s \in revoked : ~SessionLocked(s)
         /\ sessions' = Revoke(revoked)
    /\ End(t)
    /\ UNCHANGED <<now, account, attempts>>

\* Mutation of the statement: the last revision is not refused.
ReinstateUntilOverflow ==
    /\ ~accepted /\ ~UserLocked
    /\ accepted' = TRUE
    /\ revision' = revision + 1 /\ since' = revision + 1
    /\ UNCHANGED <<now, attempts, sessions, task>>

Reinstate ==
    /\ ~accepted /\ ~UserLocked
    /\ revision < MaxRevision
    /\ accepted' = TRUE
    /\ revision' = revision + 1 /\ since' = revision + 1
    /\ UNCHANGED <<now, attempts, sessions, task>>

\* A membership form advances the revision and leaves the sessions alone; so do
\* the reconciliation and a second suspension of an account that is not accepted
\* and has none.  (The setup of the first administrator changes neither: it gives the role and keeps
\* the revision, and the setup page ends the claimant's own session.)
AdvanceRevision ==
    /\ ~UserLocked
    /\ revision < MaxRevision
    /\ revision' = revision + 1
    /\ UNCHANGED <<now, accepted, since, attempts, sessions, task>>

-----------------------------------------------------------------------------

Next ==
    \/ Tick \/ BeginLogin \/ Reinstate \/ AdvanceRevision
    \/ \E s \in Ids : BeginRevalidation(s) \/ RevokeSession(s)
    \/ \E t \in Tasks :
         \/ \E a \in 1..Len(attempts) : ConsumeLoginAttempt(t, a)
         \/ Exchanged(t) \/ CreateInitialSession(t) \/ LockSession(t) \/ RotateSession(t)
         \/ \E s \in Ids : Authenticate(t, s)
         \/ TouchSession(t)
         \/ \E kind \in Revocations, s \in {0} \cup Ids, to \in BOOLEAN :
              StartRevocation(t, kind, s, to)
         \/ LockUser(t) \/ ChangeAccount(t) \/ RevokeSessions(t)
         \/ Rollback(t)

Spec == Init /\ [][Next]_vars

-----------------------------------------------------------------------------
(* Properties. *)

\* A callback delivered twice, or two at once, make one session of an attempt.
AttemptYieldsOneSession ==
    \A s, r \in Ids : sessions[s].attempt = sessions[r].attempt => s = r

\* However many revalidations of one browser overlap, a sign-in has at most
\* one session that is not revoked: an old cookie is never good beside a new.
OneSessionPerLogin ==
    \A s, r \in Ids :
      ~sessions[s].revoked /\ ~sessions[r].revoked /\ sessions[s].login = sessions[r].login => s = r

\* Both: neither a callback nor a revalidation leaves two sessions of a sign-in.
OneSession == AttemptYieldsOneSession /\ OneSessionPerLogin

\* No session outlives a role change by form or a suspension, also when a
\* sign-in, a rotation or a request was under way and carries a later clock
\* reading, and whatever forms leave the sessions alone in between.
SessionsOfThisAccount ==
    \A s \in Ids : ~sessions[s].revoked => accepted /\ sessions[s].under = since

\* A sign-in whose sessions have all been revoked, by sign-out, form or change,
\* is not brought back by a revalidation that had begun before.
DeadLoginsStayDead ==
    [][\A s \in Ids :
         LET Alive(rows) == \E r \in DOMAIN rows : rows[r].login = sessions[s].login /\ ~rows[r].revoked
         IN Alive(sessions') => Alive(sessions)]_vars

\* The sign of life of a session never goes back, however late a request's
\* write arrives: a late one cannot make a session idle that was just used.
SeenNeverGoesBack == [][\A s \in Ids : sessions'[s].seen >= sessions[s].seen]_vars

\* Both: no late write takes back what happened to a session.
SessionsOnlyEnd == DeadLoginsStayDead /\ SeenNeverGoesBack

\* What the routes promise: revoking all sessions ends all current sessions of
\* the account.  The code revokes those its clock reading finds active, and the
\* reading is older than the locks: a session that was there before and is used
\* in between has been seen after the reading, and stays.
RevokeAllEndsAll ==
    [][\A t \in Tasks :
         /\ task[t].kind = "revoke_all" /\ task[t].step = "locked"
         /\ task'[t] = Free /\ sessions' # sessions
         => \A s \in Ids :
              sessions[s].issued <= task[t].at /\ Active(s, now) => sessions'[s].revoked]_vars

=============================================================================
