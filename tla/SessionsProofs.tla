---------------------------- MODULE SessionsProofs ----------------------------
(***************************************************************************)
(* Proofs about Sessions, for every number of calls, attempts and sessions *)
(* and every length of the two periods.  The argument is about use: the    *)
(* conditional update gives an attempt to one callback, which carries it   *)
(* to at most one session; and a rotation finds its session unrevoked when *)
(* it writes, so that the new session takes the place of the only one its  *)
(* sign-in had left.                                                       *)
(***************************************************************************)
EXTENDS Sessions, SequenceTheorems, TLAPS

USE DEF account

-----------------------------------------------------------------------------
(* The inductive invariant. *)

Callback(t) == task[t].kind = "callback"

\* What an attempt or a call refers to exists.
References ==
    /\ \A a \in 1..Len(attempts) : attempts[a].session \in {0} \cup Ids
    /\ \A t \in Tasks :
         /\ Callback(t) => task[t].attempt \in 1..Len(attempts) /\ task[t].session \in {0} \cup Ids
         /\ Callback(t) /\ task[t].step = "locked" => task[t].session # 0
         /\ task[t].kind = "touch" => task[t].session \in Ids
    /\ \A s \in Ids : sessions[s].attempt \in 1..Len(attempts) /\ sessions[s].login \in Ids

\* An attempt that a callback or a session has is consumed, and only one has it.
AttemptsAreUsedOnce ==
    /\ \A t \in Tasks : Callback(t) => ~attempts[task[t].attempt].open
    /\ \A s \in Ids : ~attempts[sessions[s].attempt].open
    /\ \A t, u \in Tasks : Callback(t) /\ Callback(u) /\ task[t].attempt = task[u].attempt => t = u
    /\ \A t \in Tasks, s \in Ids : Callback(t) => task[t].attempt # sessions[s].attempt

IInv ==
    /\ TypeOK /\ References /\ AttemptsAreUsedOnce
    /\ OneSession /\ SessionsOfThisAccount

-----------------------------------------------------------------------------
(* Types. *)

Callbacks ==
    [kind : {"callback"}, step : {"exchange", "begin", "locked"}, at : 0..MaxTime,
     attempt : 1..MaxAttempts, session : 0..MaxSessions]
Touches == [kind : {"touch"}, at : 0..MaxTime, session : 1..MaxSessions]
RevocationCalls ==
    [kind : Revocations, step : {"begin", "locked"}, at : 0..MaxTime,
     session : 0..MaxSessions, revision : 1..MaxRevision, to : BOOLEAN]
AnyCall == {Free} \cup Callbacks \cup Touches \cup RevocationCalls

\* The kind of a call says what else its record holds.
LEMMA CallType ==
    ASSUME TypeOK, NEW t \in Tasks
    PROVE  /\ task \in [Tasks -> AnyCall]
           /\ task[t].kind = "callback" => task[t] \in Callbacks
           /\ task[t].kind = "touch" => task[t] \in Touches
           /\ task[t].kind \in Revocations => task[t] \in RevocationCalls
           /\ task[t] = Free => task[t].kind = "free"
<1>1. {Free} \cup Calls = AnyCall
  BY DEF AnyCall, Calls, Callbacks, Touches, RevocationCalls
<1>2. task \in [Tasks -> AnyCall]
  BY <1>1 DEF TypeOK
<1>3. task[t] \in AnyCall
  BY <1>2
<1>4. /\ task[t] \in {Free} => task[t].kind = "free"
      /\ task[t] \in Callbacks => task[t].kind = "callback"
      /\ task[t] \in Touches => task[t].kind = "touch"
      /\ task[t] \in RevocationCalls => task[t].kind \in Revocations
  BY DEF Callbacks, Touches, RevocationCalls, Free
<1>5. "callback" \notin Revocations /\ "touch" \notin Revocations /\ "free" \notin Revocations
  BY DEF Revocations
<1> QED BY <1>2, <1>3, <1>4, <1>5 DEF AnyCall

\* A call that is set, for the type invariant.
LEMMA CallSet ==
    ASSUME TypeOK, NEW t \in Tasks, NEW x \in AnyCall, task' = [task EXCEPT ![t] = x]
    PROVE  task' \in [Tasks -> {Free} \cup Calls]
<1>1. {Free} \cup Calls = AnyCall
  BY DEF AnyCall, Calls, Callbacks, Touches, RevocationCalls
<1> QED BY <1>1, CallType DEF TypeOK

LEMMA EndSet ==
    ASSUME TypeOK, NEW t \in Tasks, End(t)
    PROVE  task' \in [Tasks -> {Free} \cup Calls]
  BY CallSet DEF End, AnyCall

LEMMA SessionsType ==
    ASSUME TypeOK
    PROVE  /\ Len(sessions) \in Nat /\ Len(attempts) \in Nat
           /\ DOMAIN sessions = Ids /\ DOMAIN attempts = 1..Len(attempts)
           /\ \A s \in Ids : sessions[s] \in SessionRows
           /\ \A a \in 1..Len(attempts) : attempts[a] \in Attempts
  BY LenProperties, ElementOfSeq DEF TypeOK, Ids

\* A revocation changes the flag of some rows and nothing else.
LEMMA RevokeType ==
    ASSUME TypeOK, NEW S
    PROVE  /\ Revoke(S) \in Seq(SessionRows) /\ Len(Revoke(S)) = Len(sessions)
           /\ \A s \in Ids :
                Revoke(S)[s] = [sessions[s] EXCEPT !.revoked = sessions[s].revoked \/ s \in S]
<1>1. \A s \in Ids : [sessions[s] EXCEPT !.revoked = sessions[s].revoked \/ s \in S] \in SessionRows
  <2> SUFFICES ASSUME NEW s \in Ids
               PROVE  [sessions[s] EXCEPT !.revoked = sessions[s].revoked \/ s \in S] \in SessionRows
    OBVIOUS
  <2>1. sessions[s] \in SessionRows
    BY SessionsType
  <2>2. (sessions[s].revoked \/ s \in S) \in BOOLEAN
    OBVIOUS
  <2> QED BY <2>1, <2>2 DEF SessionRows
<1>2. Revoke(S) \in [1..Len(sessions) -> SessionRows]
  BY <1>1 DEF Revoke, Ids
<1>3. Len(sessions) \in Nat
  BY SessionsType
<1>4. Revoke(S) \in Seq(SessionRows)
  BY <1>2, <1>3, SeqDef
<1>5. Len(Revoke(S)) = Len(sessions)
  BY <1>2, <1>3, <1>4, LenProperties
<1> QED BY <1>4, <1>5 DEF Revoke

LEMMA NewSessionType ==
    ASSUME TypeOK, NEW t \in Tasks, Callback(t), NEW login \in 1..MaxSessions
    PROVE  NewSession(task[t], login) \in SessionRows
<1>1. task[t] \in Callbacks /\ since \in 1..MaxRevision
  <2>1. task[t] \in Callbacks
    BY CallType DEF Callback
  <2>2. since \in 1..MaxRevision
    BY BoundsAssumption DEF TypeOK
  <2> QED BY <2>1, <2>2
<1> QED BY <1>1 DEF NewSession, SessionRows, Callbacks

-----------------------------------------------------------------------------
(* What a step makes of the rows: old ones only get older, and one step in *)
(* the end of a callback adds one.                                         *)

RowsKept ==
    \A s \in Ids :
      /\ sessions'[s].login = sessions[s].login /\ sessions'[s].attempt = sessions[s].attempt
      /\ sessions'[s].under = sessions[s].under
      /\ sessions'[s].issued = sessions[s].issued /\ sessions'[s].seen >= sessions[s].seen
      /\ sessions[s].revoked => sessions'[s].revoked

SameRows == Len(sessions') = Len(sessions) /\ sessions' \in Seq(SessionRows) /\ RowsKept

\* The new row belongs to a new sign-in, or takes the place of an active one.
Replaces(t, s) ==
    /\ s \in Ids /\ ~sessions[s].revoked /\ sessions'[s].revoked
    /\ sessions'[Len(sessions) + 1].login = sessions[s].login

AddsRow(t) ==
    /\ Callback(t) /\ accepted /\ End(t)
    /\ UNCHANGED <<now, account, attempts>>
    /\ Len(sessions) < MaxSessions /\ Len(sessions') = Len(sessions) + 1
    /\ sessions' \in Seq(SessionRows) /\ RowsKept
    /\ LET row == sessions'[Len(sessions) + 1] IN
         /\ row.attempt = task[t].attempt /\ row.under = since /\ row.issued <= row.seen
         /\ \/ row.login = Len(sessions) + 1
            \/ \E s \in Ids : Replaces(t, s)

LEMMA RevokeKeeps ==
    ASSUME TypeOK, NEW S, sessions' = Revoke(S)
    PROVE  SameRows /\ \A s \in S \cap Ids : sessions'[s].revoked
<1>1. \A s \in Ids :
        /\ sessions'[s] = [sessions[s] EXCEPT !.revoked = sessions[s].revoked \/ s \in S]
        /\ sessions[s] \in SessionRows
  BY RevokeType, SessionsType
<1>2. \A s \in Ids : sessions'[s].revoked = (sessions[s].revoked \/ s \in S)
  BY <1>1, Zenon DEF SessionRows
<1>3. \A s \in Ids :
        /\ sessions'[s].login = sessions[s].login /\ sessions'[s].attempt = sessions[s].attempt
        /\ sessions'[s].under = sessions[s].under
        /\ sessions'[s].issued = sessions[s].issued /\ sessions'[s].seen = sessions[s].seen
  BY <1>1, Zenon DEF SessionRows
<1>4. \A s \in Ids : sessions[s].seen >= sessions[s].seen
  BY SessionsType DEF SessionRows
<1>5. RowsKept
  BY <1>2, <1>3, <1>4, Zenon DEF RowsKept
<1>6. Len(sessions') = Len(sessions) /\ sessions' \in Seq(SessionRows)
  BY RevokeType
<1> QED BY <1>2, <1>5, <1>6, Zenon DEF SameRows

LEMMA CreateAdds ==
    ASSUME TypeOK, NEW t \in Tasks, CreateInitialSession(t)
    PROVE  AddsRow(t)
<1> DEFINE row == NewSession(task[t], Len(sessions) + 1)
<1>1. Len(sessions) \in Nat /\ Len(sessions) + 1 \in 1..MaxSessions /\ Callback(t)
  BY SessionsType, BoundsAssumption DEF CreateInitialSession, Callback
<1>2. row \in SessionRows
  BY <1>1, NewSessionType
<1>3. /\ sessions' = Append(sessions, row) /\ sessions \in Seq(SessionRows)
  BY DEF CreateInitialSession, TypeOK
<1>4. /\ Len(sessions') = Len(sessions) + 1 /\ sessions' \in Seq(SessionRows)
      /\ sessions'[Len(sessions) + 1] = row
      /\ \A s \in Ids : sessions'[s] = sessions[s]
  <2> HIDE DEF row
  <2> QED BY <1>1, <1>2, <1>3, AppendProperties DEF Ids
<1>5. RowsKept
  <2>1. \A s \in Ids : sessions[s].seen >= sessions[s].seen
    BY SessionsType DEF SessionRows
  <2> QED BY <1>4, <2>1, Zenon DEF RowsKept
<1>6. /\ row.attempt = task[t].attempt /\ row.under = since
      /\ row.login = Len(sessions) + 1 /\ row.issued <= row.seen
  <2>1. task[t].at \in Nat
    BY <1>1, CallType DEF Callback, Callbacks
  <2> QED BY <2>1 DEF NewSession
<1>7. accepted /\ End(t) /\ UNCHANGED <<now, account, attempts>> /\ Len(sessions) < MaxSessions
  BY DEF CreateInitialSession
<1> HIDE DEF row
<1> QED BY <1>1, <1>4, <1>5, <1>6, <1>7 DEF AddsRow

LEMMA RotateAdds ==
    ASSUME TypeOK, References, NEW t \in Tasks, RotateSession(t)
    PROVE  AddsRow(t) /\ Replaces(t, task[t].session)
<1> DEFINE s == task[t].session
           row == NewSession(task[t], sessions[s].login)
<1>1. Len(sessions) \in Nat /\ Callback(t) /\ s \in Ids /\ Len(sessions) < MaxSessions
  BY SessionsType DEF RotateSession, Callback, References
<1>2. sessions[s] \in SessionRows
  BY <1>1, SessionsType
<1>3. row \in SessionRows
  <2>1. sessions[s].login \in 1..MaxSessions
    BY <1>2 DEF SessionRows
  <2> QED BY <1>1, <2>1, NewSessionType
<1>4. Revoke({s}) \in Seq(SessionRows) /\ Len(Revoke({s})) = Len(sessions)
  BY RevokeType
<1>5. /\ sessions' = Append(Revoke({s}), row) /\ Active(s, task[t].at)
  BY DEF RotateSession
<1>6. /\ Len(sessions') = Len(sessions) + 1 /\ sessions' \in Seq(SessionRows)
      /\ sessions'[Len(sessions) + 1] = row
      /\ \A r \in Ids : sessions'[r] = Revoke({s})[r]
  <2> HIDE DEF row, s
  <2> DEFINE old == Revoke({s})
  <2>1. \A r \in 1..Len(old) : Append(old, row)[r] = old[r]
    <3> HIDE DEF old
    <3> QED BY <1>3, <1>4, AppendProperties DEF old
  <2>2. /\ Append(old, row) \in Seq(SessionRows) /\ Len(Append(old, row)) = Len(old) + 1
        /\ Append(old, row)[Len(old) + 1] = row
    <3> HIDE DEF old
    <3> QED BY <1>3, <1>4, AppendProperties DEF old
  <2> QED BY <1>4, <1>5, <2>1, <2>2 DEF Ids
<1>7. \A r \in Ids :
        /\ sessions'[r] = [sessions[r] EXCEPT !.revoked = sessions[r].revoked \/ r \in {s}]
        /\ sessions[r] \in SessionRows
  <2>1. \A r \in Ids :
          Revoke({s})[r] = [sessions[r] EXCEPT !.revoked = sessions[r].revoked \/ r \in {s}]
    BY RevokeType
  <2>2. \A r \in Ids : sessions[r] \in SessionRows
    BY SessionsType
  <2> QED BY <1>6, <2>1, <2>2, Zenon
<1>8. RowsKept /\ sessions'[s].revoked
  <2> HIDE DEF s
  <2>1. \A r \in Ids : sessions'[r].revoked = (sessions[r].revoked \/ r \in {s})
    BY <1>7, Zenon DEF SessionRows
  <2>2. \A r \in Ids :
        /\ sessions'[r].login = sessions[r].login /\ sessions'[r].attempt = sessions[r].attempt
        /\ sessions'[r].under = sessions[r].under
        /\ sessions'[r].issued = sessions[r].issued /\ sessions'[r].seen = sessions[r].seen
    BY <1>7, ZenonT(90) DEF SessionRows
  <2>3. \A r \in Ids : sessions[r].seen >= sessions[r].seen
    BY SessionsType DEF SessionRows
  <2>4. sessions'[s].revoked
    BY <1>1, <2>1, Zenon
  <2> QED BY <2>1, <2>2, <2>3, <2>4, Zenon DEF RowsKept
<1>9. /\ row.attempt = task[t].attempt /\ row.under = since
      /\ row.login = sessions[s].login /\ row.issued <= row.seen
  <2>1. task[t].at \in Nat
    BY <1>1, CallType DEF Callback, Callbacks
  <2> QED BY <2>1 DEF NewSession
<1>10. accepted /\ End(t) /\ UNCHANGED <<now, account, attempts>>
  BY DEF RotateSession
<1>11. Replaces(t, s)
  <2> HIDE DEF row, s
  <2> QED BY <1>1, <1>5, <1>6, <1>8, <1>9 DEF Replaces, Active
<1> HIDE DEF row, s
<1>12. AddsRow(t)
  BY <1>1, <1>6, <1>8, <1>9, <1>10, <1>11 DEF AddsRow
<1> QED BY <1>11, <1>12 DEF s

LEMMA TouchKeeps ==
    ASSUME TypeOK, References, NEW t \in Tasks, TouchSession(t)
    PROVE  SameRows
<1> DEFINE s == task[t].session
<1>1. s \in Ids /\ task[t] \in Touches
  BY CallType DEF TouchSession, References
<1>2. sessions \in Seq(SessionRows) /\ sessions[s] \in SessionRows
  BY <1>1, SessionsType DEF TypeOK
<1>3. \A r \in Ids : sessions[r].seen >= sessions[r].seen
  BY SessionsType DEF SessionRows
<1>4. CASE sessions' = sessions
  BY <1>2, <1>3, <1>4, Zenon DEF SameRows, RowsKept
<1>5. CASE sessions[s].seen < task[t].at /\ sessions' = [sessions EXCEPT ![s].seen = task[t].at]
  <2> DEFINE row == [sessions[s] EXCEPT !.seen = task[t].at]
  <2>1. row \in SessionRows /\ sessions' = [sessions EXCEPT ![s] = row]
    <3>1. task[t].at \in 0..MaxTime
      BY <1>1 DEF Touches
    <3> QED BY <1>2, <1>5, <3>1 DEF SessionRows
  <2>2. /\ row.login = sessions[s].login /\ row.attempt = sessions[s].attempt
        /\ row.under = sessions[s].under /\ row.issued = sessions[s].issued
        /\ row.revoked = sessions[s].revoked /\ row.seen = task[t].at
    BY <1>2 DEF SessionRows
  <2>3. row.seen >= sessions[s].seen
    BY <1>1, <1>2, <1>5, <2>2, SMTT(30) DEF Touches, SessionRows
  <2> HIDE DEF row, s
  <2>4. /\ sessions' \in Seq(SessionRows) /\ Len(sessions') = Len(sessions)
        /\ \A r \in Ids : sessions'[r] = IF r = s THEN row ELSE sessions[r]
    BY <1>1, <1>2, <2>1, ExceptSeq DEF Ids
  <2>5. \A r \in Ids : sessions'[r] = sessions[r] \/ (r = s /\ sessions'[r] = row)
    BY <2>4
  <2>6. RowsKept
    BY <1>3, <2>2, <2>3, <2>5, Zenon DEF RowsKept
  <2> QED BY <2>4, <2>6 DEF SameRows
<1> QED BY <1>4, <1>5 DEF TouchSession

-----------------------------------------------------------------------------
(* What a step makes of attempts and calls. *)

\* No call becomes a callback, and none changes what it refers to.
CallsKept ==
    \A t \in Tasks :
      /\ Callback(t)' =>
           /\ Callback(t) /\ task'[t].attempt = task[t].attempt /\ task'[t].session = task[t].session
           /\ task'[t].step = "locked" => task[t].session # 0
      /\ task'[t].kind = "touch" => task'[t].session \in Ids

\* Attempts are only added.
AttemptsKept ==
    /\ Len(attempts') >= Len(attempts)
    /\ \A a \in 1..Len(attempts) : attempts'[a] = attempts[a]
    /\ \A a \in 1..Len(attempts') : attempts'[a].session \in {0} \cup Ids

Consumes(t, a) ==
    /\ attempts[a].open /\ UNCHANGED sessions
    /\ Len(attempts') = Len(attempts)
    /\ \A b \in 1..Len(attempts) :
         /\ attempts'[b].session = attempts[b].session
         /\ attempts'[b].open <=> attempts[b].open /\ b # a
    /\ \A u \in Tasks \ {t} : task'[u] = task[u]
    /\ task'[t].kind = "callback" /\ task'[t].step = "exchange"
    /\ task'[t].attempt = a /\ task'[t].session = attempts[a].session

Calm == CallsKept /\ AttemptsKept /\ SameRows

LEMMA ConsumeShape ==
    ASSUME TypeOK, NEW t \in Tasks, NEW a \in 1..Len(attempts), ConsumeLoginAttempt(t, a)
    PROVE  Consumes(t, a)
<1> DEFINE row == [attempts[a] EXCEPT !.open = FALSE]
<1>1. attempts \in Seq(Attempts) /\ attempts[a] \in Attempts
  BY SessionsType DEF TypeOK
<1>2. row \in Attempts /\ row.session = attempts[a].session /\ ~row.open
  BY <1>1 DEF Attempts
<1>3. attempts' = [attempts EXCEPT ![a] = row]
  BY DEF ConsumeLoginAttempt
<1>4. /\ Len(attempts') = Len(attempts)
      /\ \A b \in 1..Len(attempts) : attempts'[b] = IF b = a THEN row ELSE attempts[b]
  <2> HIDE DEF row
  <2> QED BY <1>1, <1>2, <1>3, ExceptSeq
<1>5. \A b \in 1..Len(attempts) :
         /\ attempts'[b].session = attempts[b].session
         /\ attempts'[b].open <=> attempts[b].open /\ b # a
  <2> HIDE DEF row
  <2>1. \A b \in 1..Len(attempts) : (b = a /\ attempts'[b] = row) \/ (b # a /\ attempts'[b] = attempts[b])
    BY <1>4
  <2> QED BY <1>2, <2>1, Zenon
<1>6. /\ attempts[a].open /\ UNCHANGED sessions
      /\ \A u \in Tasks \ {t} : task'[u] = task[u]
      /\ task'[t] = [kind |-> "callback", step |-> "exchange", at |-> now,
                     attempt |-> a, session |-> attempts[a].session]
  BY DEF ConsumeLoginAttempt, TypeOK
<1> QED BY <1>4, <1>5, <1>6 DEF Consumes

LEMMA SameAttempts ==
    ASSUME TypeOK, References, UNCHANGED attempts
    PROVE  AttemptsKept
  BY SessionsType DEF AttemptsKept, References

LEMMA SameSessions ==
    ASSUME TypeOK, UNCHANGED sessions
    PROVE  SameRows
<1>1. \A s \in Ids : sessions[s].seen >= sessions[s].seen
  BY SessionsType DEF SessionRows
<1> QED BY <1>1, Zenon DEF SameRows, RowsKept, TypeOK

LEMMA AttemptAdded ==
    ASSUME TypeOK, References, NEW s \in {0} \cup Ids,
           attempts' = Append(attempts, [session |-> s, open |-> TRUE])
    PROVE  AttemptsKept
<1> DEFINE row == [session |-> s, open |-> TRUE]
<1>1. row \in Attempts /\ row.session = s
  <2>1. s \in 0..MaxSessions
    BY SessionsType, BoundsAssumption DEF TypeOK, Ids
  <2> QED BY <2>1 DEF Attempts
<1>2. /\ Len(attempts') = Len(attempts) + 1 /\ attempts'[Len(attempts) + 1] = row
      /\ \A a \in 1..Len(attempts) : attempts'[a] = attempts[a]
  <2> HIDE DEF row
  <2> QED BY <1>1, AppendProperties DEF TypeOK, row
<1>3. Len(attempts) \in Nat
  BY SessionsType
<1> HIDE DEF row
<1> QED BY <1>1, <1>2, <1>3 DEF AttemptsKept, References

LEMMA OneCallChanges ==
    ASSUME TypeOK, References, NEW t \in Tasks, NEW x, task' = [task EXCEPT ![t] = x],
           x.kind = "callback" =>
             /\ Callback(t) /\ x.attempt = task[t].attempt /\ x.session = task[t].session
             /\ x.step = "locked" => task[t].session # 0,
           x.kind = "touch" => x.session \in Ids
    PROVE  CallsKept
<1>1. task'[t] = x /\ \A u \in Tasks \ {t} : task'[u] = task[u]
  BY DEF TypeOK
<1> QED BY <1>1 DEF CallsKept, References, Callback

LEMMA CallEnds ==
    ASSUME TypeOK, References, NEW t \in Tasks, End(t)
    PROVE  CallsKept
  BY OneCallChanges DEF End, Free

LEMMA SameCalls ==
    ASSUME TypeOK, References, UNCHANGED task
    PROVE  CallsKept
  BY DEF CallsKept, References, Callback

\* Every step is calm, consumes an attempt or ends a callback with a session.
LEMMA StepShape ==
    ASSUME TypeOK, References, [Next]_vars
    PROVE  \/ Calm
           \/ \E t \in Tasks, a \in 1..Len(attempts) : ConsumeLoginAttempt(t, a)
           \/ \E t \in Tasks : AddsRow(t) /\ (CreateInitialSession(t) \/ RotateSession(t))
<1>1. CASE Tick \/ Reinstate \/ AdvanceRevision \/ UNCHANGED vars
  BY <1>1, SameAttempts, SameSessions, SameCalls DEF Tick, Reinstate, AdvanceRevision, vars, Calm
<1>2. CASE BeginLogin
  BY <1>2, AttemptAdded, SameSessions, SameCalls DEF BeginLogin, Calm
<1>3. ASSUME NEW s \in Ids, BeginRevalidation(s) PROVE Calm
  BY <1>3, AttemptAdded, SameSessions, SameCalls DEF BeginRevalidation, Calm
<1>4. ASSUME NEW s \in Ids, RevokeSession(s) PROVE Calm
  BY <1>4, SameAttempts, RevokeKeeps, SameCalls DEF RevokeSession, Calm
<1>5. ASSUME NEW t \in Tasks, Exchanged(t) \/ LockSession(t) PROVE Calm
  <2>1. task[t] \in Callbacks
    BY <1>5, CallType DEF Exchanged, LockSession
  <2>2. PICK x : /\ task' = [task EXCEPT ![t] = x]
                 /\ x.kind = "callback" /\ x.attempt = task[t].attempt /\ x.session = task[t].session
                 /\ x.step = "locked" => task[t].session # 0
    <3>1. CASE Exchanged(t)
      <4> DEFINE y == [task[t] EXCEPT !.step = "begin", !.at = now]
      <4>1. /\ y.kind = "callback" /\ y.attempt = task[t].attempt /\ y.session = task[t].session
            /\ y.step = "begin"
        BY <2>1 DEF Callbacks
      <4>2. task' = [task EXCEPT ![t] = y]
        BY <3>1, <2>1 DEF Exchanged, TypeOK, Callbacks
      <4> HIDE DEF y
      <4> QED BY <4>1, <4>2
    <3>2. CASE LockSession(t)
      <4> DEFINE y == [task[t] EXCEPT !.step = "locked"]
      <4>1. y.kind = "callback" /\ y.attempt = task[t].attempt /\ y.session = task[t].session
        BY <2>1 DEF Callbacks
      <4>2. task' = [task EXCEPT ![t] = y] /\ task[t].session # 0
        BY <3>2, <2>1 DEF LockSession, TypeOK, Callbacks
      <4> HIDE DEF y
      <4> QED BY <4>1, <4>2
    <3> QED BY <1>5, <3>1, <3>2
  <2>3. CallsKept
    <3>1. Callback(t)
      BY <2>1 DEF Callbacks, Callback
    <3> QED BY <2>2, <3>1, OneCallChanges
  <2> QED BY <1>5, <2>3, SameAttempts, SameSessions DEF Exchanged, LockSession, Calm
<1>6. ASSUME NEW t \in Tasks, NEW s \in Ids, Authenticate(t, s) PROVE Calm
  <2> DEFINE x == [kind |-> "touch", at |-> now, session |-> s]
  <2>1. x.kind = "touch" /\ x.session = s
    OBVIOUS
  <2>2. task' = [task EXCEPT ![t] = x]
    BY <1>6 DEF Authenticate
  <2>3. CallsKept
    <3> HIDE DEF x
    <3> QED BY <2>1, <2>2, OneCallChanges
  <2> QED BY <1>6, <2>3, SameAttempts, SameSessions DEF Authenticate, Calm
<1>7. ASSUME NEW t \in Tasks, TouchSession(t) PROVE Calm
  BY <1>7, TouchKeeps, SameAttempts, CallEnds DEF TouchSession, Calm
<1>8. ASSUME NEW t \in Tasks, NEW kind \in Revocations, NEW s \in {0} \cup Ids, NEW to \in BOOLEAN,
             StartRevocation(t, kind, s, to)
      PROVE  Calm
  <2> DEFINE x == [kind |-> kind, step |-> "begin", at |-> now,
                   session |-> s, revision |-> revision, to |-> to]
  <2>1. x.kind \notin {"callback", "touch"}
    BY DEF Revocations
  <2>2. task' = [task EXCEPT ![t] = x]
    BY <1>8 DEF StartRevocation
  <2>3. CallsKept
    <3> HIDE DEF x
    <3> QED BY <2>1, <2>2, OneCallChanges
  <2> QED BY <1>8, <2>3, SameAttempts, SameSessions DEF StartRevocation, Calm
<1>9. ASSUME NEW t \in Tasks, LockUser(t) PROVE Calm
  <2> DEFINE x == [task[t] EXCEPT !.step = "locked"]
  <2>1. task[t] \in RevocationCalls
    BY <1>9, CallType DEF LockUser
  <2>2. x.kind \notin {"callback", "touch"}
    BY <2>1 DEF RevocationCalls, Revocations
  <2>3. task' = [task EXCEPT ![t] = x]
    BY <1>9, <2>1 DEF LockUser, TypeOK, RevocationCalls
  <2>4. CallsKept
    <3> HIDE DEF x
    <3> QED BY <2>2, <2>3, OneCallChanges
  <2> QED BY <1>9, <2>4, SameAttempts, SameSessions DEF LockUser, Calm
<1>10. ASSUME NEW t \in Tasks, ChangeAccount(t) PROVE Calm
  BY <1>10, RevokeKeeps, SameAttempts, CallEnds DEF ChangeAccount, Calm
<1>11. ASSUME NEW t \in Tasks, RevokeSessions(t) PROVE Calm
  BY <1>11, RevokeKeeps, SameAttempts, CallEnds DEF RevokeSessions, Calm
<1>12. ASSUME NEW t \in Tasks, Rollback(t) PROVE Calm
  BY <1>12, SameSessions, SameAttempts, CallEnds DEF Rollback, Calm
<1>13. ASSUME NEW t \in Tasks, CreateInitialSession(t) PROVE AddsRow(t)
  BY <1>13, CreateAdds
<1>14. ASSUME NEW t \in Tasks, RotateSession(t) PROVE AddsRow(t)
  BY <1>14, RotateAdds
<1> QED BY <1>1, <1>2, <1>3, <1>4, <1>5, <1>6, <1>7, <1>8, <1>9, <1>10, <1>11, <1>12, <1>13, <1>14
        DEF Next

-----------------------------------------------------------------------------
(* The invariant holds in every state. *)

LEMMA RowsOfNext ==
    ASSUME TypeOK, SameRows
    PROVE  /\ Ids' = Ids
           /\ \A s \in Ids :
                /\ sessions'[s].login = sessions[s].login /\ sessions'[s].attempt = sessions[s].attempt
                /\ sessions'[s].under = sessions[s].under
                /\ ~sessions'[s].revoked => ~sessions[s].revoked
  BY Zenon DEF SameRows, RowsKept, Ids

LEMMA ReferencesStep == TypeOK /\ References /\ [Next]_vars => References'
<1> SUFFICES ASSUME TypeOK, References, [Next]_vars PROVE References'
  OBVIOUS
<1>1. CASE Calm
  <2>1. Ids' = Ids /\ \A s \in Ids :
          sessions'[s].login = sessions[s].login /\ sessions'[s].attempt = sessions[s].attempt
    BY <1>1, RowsOfNext DEF Calm
  <2>2. Len(attempts) \in Nat /\ Len(attempts') >= Len(attempts)
    BY <1>1, SessionsType DEF Calm, AttemptsKept
  <2>3. 1..Len(attempts) \subseteq 1..Len(attempts')
    <3>1. CASE Len(attempts') \in Int
      BY <2>2, <3>1
    <3> QED BY <2>2, <1>1 DEF Calm, AttemptsKept
  <2> QED BY <1>1, <2>1, <2>3 DEF References, Calm, CallsKept, AttemptsKept, Callback
<1>2. ASSUME NEW t \in Tasks, NEW a \in 1..Len(attempts), Consumes(t, a) PROVE References'
  BY <1>2, ZenonT(40) DEF Consumes, References, Callback, Ids
<1>3. ASSUME NEW t \in Tasks, AddsRow(t) PROVE References'
  <2> DEFINE n == Len(sessions) + 1
  <2>1. Ids' = Ids \cup {n} /\ n \notin Ids
    BY <1>3, SessionsType DEF AddsRow, Ids
  <2>2. /\ \A s \in Ids : sessions'[s].login = sessions[s].login /\ sessions'[s].attempt = sessions[s].attempt
        /\ sessions'[n].attempt = task[t].attempt /\ sessions'[n].login \in Ids \cup {n}
    BY <1>3 DEF AddsRow, RowsKept, Replaces, References
  <2>3. CallsKept /\ attempts' = attempts /\ task[t].attempt \in 1..Len(attempts)
    BY <1>3, CallEnds DEF AddsRow, References
  <2> HIDE DEF n
  <2> QED BY <2>1, <2>2, <2>3 DEF References, CallsKept, Callback
<1> QED BY <1>1, <1>2, <1>3, StepShape, ConsumeShape

LEMMA AttemptsStep ==
    TypeOK /\ References /\ AttemptsAreUsedOnce /\ AttemptYieldsOneSession /\ [Next]_vars
    => AttemptsAreUsedOnce' /\ AttemptYieldsOneSession'
<1> SUFFICES ASSUME TypeOK, References, AttemptsAreUsedOnce, AttemptYieldsOneSession, [Next]_vars
             PROVE  AttemptsAreUsedOnce' /\ AttemptYieldsOneSession'
  OBVIOUS
<1>1. CASE Calm
  <2>1. Ids' = Ids /\ \A s \in Ids : sessions'[s].attempt = sessions[s].attempt
    BY <1>1, RowsOfNext DEF Calm
  <2>2. \A s \in Ids : attempts'[sessions[s].attempt] = attempts[sessions[s].attempt]
    BY <1>1 DEF Calm, AttemptsKept, References
  <2>3. \A u \in Tasks : Callback(u)' =>
          /\ Callback(u) /\ task'[u].attempt = task[u].attempt
          /\ attempts'[task[u].attempt] = attempts[task[u].attempt]
    BY <1>1 DEF Calm, CallsKept, AttemptsKept, References
  <2>4. AttemptYieldsOneSession'
    BY <2>1 DEF AttemptYieldsOneSession
  <2>5. \A u \in Tasks : Callback(u)' => ~attempts'[task'[u].attempt].open
    BY <2>3, Zenon DEF AttemptsAreUsedOnce
  <2>6. \A s \in Ids : ~attempts'[sessions'[s].attempt].open
    BY <2>1, <2>2, Zenon DEF AttemptsAreUsedOnce
  <2>7. \A u, v \in Tasks :
          Callback(u)' /\ Callback(v)' /\ task'[u].attempt = task'[v].attempt => u = v
    BY <2>3, Zenon DEF AttemptsAreUsedOnce
  <2>8. \A u \in Tasks, s \in Ids : Callback(u)' => task'[u].attempt # sessions'[s].attempt
    BY <2>1, <2>3 DEF AttemptsAreUsedOnce
  <2> QED BY <2>1, <2>4, <2>5, <2>6, <2>7, <2>8 DEF AttemptsAreUsedOnce
<1>2. ASSUME NEW t \in Tasks, NEW a \in 1..Len(attempts), Consumes(t, a)
      PROVE  AttemptsAreUsedOnce' /\ AttemptYieldsOneSession'
  <2>1. /\ \A s \in Ids : sessions[s].attempt \in 1..Len(attempts) \ {a}
        /\ \A u \in Tasks \ {t} : Callback(u) => task[u].attempt \in 1..Len(attempts) \ {a}
    BY <1>2 DEF Consumes, AttemptsAreUsedOnce, References
  <2>2. /\ \A b \in 1..Len(attempts) : ~attempts[b].open \/ b = a => ~attempts'[b].open
        /\ \A u \in Tasks \ {t} : task'[u] = task[u]
        /\ task'[t].attempt = a /\ sessions' = sessions /\ Ids' = Ids
    BY <1>2, Zenon DEF Consumes, Ids
  <2>3. AttemptYieldsOneSession'
    BY <2>2 DEF AttemptYieldsOneSession
  <2>4. \A u \in Tasks : Callback(u)' => \/ u = t /\ task'[u].attempt = a
                                         \/ u # t /\ Callback(u) /\ task'[u].attempt = task[u].attempt
    BY <2>2 DEF Callback
  <2>5. \A u \in Tasks : Callback(u)' => ~attempts'[task'[u].attempt].open
    BY <2>1, <2>2, <2>4, Zenon DEF AttemptsAreUsedOnce
  <2>6. \A s \in Ids : ~attempts'[sessions[s].attempt].open
    BY <2>1, <2>2, Zenon DEF AttemptsAreUsedOnce
  <2>7. \A u, v \in Tasks :
          Callback(u)' /\ Callback(v)' /\ task'[u].attempt = task'[v].attempt => u = v
    BY <2>1, <2>4 DEF AttemptsAreUsedOnce
  <2>8. \A u \in Tasks, s \in Ids : Callback(u)' => task'[u].attempt # sessions[s].attempt
    BY <2>1, <2>4 DEF AttemptsAreUsedOnce
  <2> QED BY <2>2, <2>3, <2>5, <2>6, <2>7, <2>8 DEF AttemptsAreUsedOnce
<1>3. ASSUME NEW t \in Tasks, AddsRow(t) PROVE AttemptsAreUsedOnce' /\ AttemptYieldsOneSession'
  <2> DEFINE n == Len(sessions) + 1
             a == task[t].attempt
  <2>1. Ids' = Ids \cup {n} /\ n \notin Ids
    BY <1>3, SessionsType DEF AddsRow, Ids
  <2>2. /\ \A s \in Ids : sessions'[s].attempt = sessions[s].attempt
        /\ sessions'[n].attempt = a /\ attempts' = attempts
        /\ task'[t].kind = "free" /\ \A u \in Tasks \ {t} : task'[u] = task[u]
    BY <1>3 DEF AddsRow, RowsKept, End, Free, TypeOK
  <2>3. Callback(t)
    BY <1>3 DEF AddsRow
  <2>4. \A u \in Tasks : Callback(u)' => u # t /\ Callback(u) /\ task'[u] = task[u]
    BY <2>2 DEF Callback
  <2>5. \A s \in Ids' : \/ s \in Ids /\ sessions'[s].attempt = sessions[s].attempt
                        \/ s = n /\ sessions'[s].attempt = a
    BY <2>1, <2>2
  <2> HIDE DEF n, a
  <2>6. \A s \in Ids : sessions[s].attempt # a
    BY <2>3 DEF AttemptsAreUsedOnce, a
  <2>7. ~attempts[a].open /\ \A u \in Tasks : Callback(u) /\ task[u].attempt = a => u = t
    BY <2>3 DEF AttemptsAreUsedOnce, a
  <2>8. AttemptYieldsOneSession'
    BY <2>5, <2>6 DEF AttemptYieldsOneSession
  <2>9. \A u \in Tasks : Callback(u)' => ~attempts'[task'[u].attempt].open
    BY <2>2, <2>4, Zenon DEF AttemptsAreUsedOnce
  <2>10. \A s \in Ids' : ~attempts'[sessions'[s].attempt].open
    BY <2>2, <2>5, <2>7, Zenon DEF AttemptsAreUsedOnce
  <2>11. \A u, v \in Tasks :
          Callback(u)' /\ Callback(v)' /\ task'[u].attempt = task'[v].attempt => u = v
    BY <2>4, Zenon DEF AttemptsAreUsedOnce
  <2>12. \A u \in Tasks, s \in Ids' : Callback(u)' => task'[u].attempt # sessions'[s].attempt
    BY <2>4, <2>5, <2>7, Zenon DEF AttemptsAreUsedOnce
  <2> QED BY <2>8, <2>9, <2>10, <2>11, <2>12 DEF AttemptsAreUsedOnce
<1> QED BY <1>1, <1>2, <1>3, StepShape, ConsumeShape

LEMMA OneSessionStep ==
    TypeOK /\ References /\ OneSessionPerLogin /\ [Next]_vars => OneSessionPerLogin'
<1> SUFFICES ASSUME TypeOK, References, OneSessionPerLogin, [Next]_vars PROVE OneSessionPerLogin'
  OBVIOUS
<1>1. CASE SameRows
  BY <1>1, RowsOfNext, Zenon DEF OneSessionPerLogin
<1>2. ASSUME NEW t \in Tasks, AddsRow(t) PROVE OneSessionPerLogin'
  <2> DEFINE n == Len(sessions) + 1
  <2>1. Ids' = Ids \cup {n} /\ n \notin Ids
    BY <1>2, SessionsType DEF AddsRow, Ids
  <2>2. \A s \in Ids : /\ sessions'[s].login = sessions[s].login
                       /\ ~sessions'[s].revoked => ~sessions[s].revoked
    BY <1>2, Zenon DEF AddsRow, RowsKept
  <2>3. \/ sessions'[n].login = n
        \/ \E s \in Ids : /\ ~sessions[s].revoked /\ sessions'[s].revoked
                          /\ sessions'[n].login = sessions[s].login
    BY <1>2 DEF AddsRow, Replaces
  <2> HIDE DEF n
  <2>4. \A s \in Ids : ~sessions'[s].revoked => sessions'[s].login # sessions'[n].login
    <3> SUFFICES ASSUME NEW s \in Ids, ~sessions'[s].revoked, sessions'[s].login = sessions'[n].login
                 PROVE  FALSE
      OBVIOUS
    <3>1. CASE sessions'[n].login = n
      BY <2>1, <2>2, <3>1 DEF References
    <3>2. ASSUME NEW r \in Ids, ~sessions[r].revoked, sessions'[r].revoked,
                 sessions'[n].login = sessions[r].login
          PROVE  FALSE
      <4>1. s = r
        BY <2>2, <3>2, Zenon DEF OneSessionPerLogin
      <4> QED BY <3>2, <4>1
    <3> QED BY <2>3, <3>1, <3>2
  <2>5. \A s, r \in Ids : ~sessions'[s].revoked /\ ~sessions'[r].revoked
                            /\ sessions'[s].login = sessions'[r].login => s = r
    BY <2>2, Zenon DEF OneSessionPerLogin
  <2> QED BY <2>1, <2>4, <2>5 DEF OneSessionPerLogin
<1> QED BY <1>1, <1>2, StepShape, SameSessions DEF Calm, ConsumeLoginAttempt

\* The account changes where all sessions are revoked; its revision alone also
\* elsewhere.
LEMMA AccountShape ==
    ASSUME TypeOK, [Next]_vars
    PROVE  UNCHANGED account \/ AdvanceRevision \/ Reinstate \/ \E t \in Tasks : ChangeAccount(t)
  BY DEF Next, vars, Tick, BeginLogin, BeginRevalidation, RevokeSession, ConsumeLoginAttempt,
         Exchanged, CreateInitialSession, LockSession, RotateSession, Authenticate, TouchSession,
         StartRevocation, LockUser, RevokeSessions, Rollback

LEMMA AccountStep ==
    TypeOK /\ References /\ SessionsOfThisAccount /\ [Next]_vars => SessionsOfThisAccount'
<1> SUFFICES ASSUME TypeOK, References, SessionsOfThisAccount, [Next]_vars
             PROVE  SessionsOfThisAccount'
  OBVIOUS
<1>1. CASE UNCHANGED <<accepted, since>>
  <2>1. CASE SameRows
    BY <1>1, <2>1, RowsOfNext, Zenon DEF SessionsOfThisAccount
  <2>2. ASSUME NEW t \in Tasks, AddsRow(t) PROVE SessionsOfThisAccount'
    <3> DEFINE n == Len(sessions) + 1
    <3>1. Ids' = Ids \cup {n}
      BY <2>2, SessionsType DEF AddsRow, Ids
    <3>2. \A s \in Ids : /\ sessions'[s].under = sessions[s].under
                         /\ ~sessions'[s].revoked => ~sessions[s].revoked
      BY <2>2, Zenon DEF AddsRow, RowsKept
    <3>3. accepted /\ sessions'[n].under = since /\ accepted' = accepted /\ since' = since
      BY <1>1, <2>2 DEF AddsRow
    <3> HIDE DEF n
    <3>4. \A s \in Ids : ~sessions'[s].revoked => accepted' /\ sessions'[s].under = since'
      BY <3>2, <3>3, Zenon DEF SessionsOfThisAccount
    <3> QED BY <3>1, <3>3, <3>4 DEF SessionsOfThisAccount
  <2> QED BY <2>1, <2>2, StepShape, SameSessions DEF Calm, ConsumeLoginAttempt
<1>2. CASE Reinstate
  BY <1>2, Zenon DEF Reinstate, SessionsOfThisAccount, Ids
<1>3. ASSUME NEW t \in Tasks, ChangeAccount(t) PROVE SessionsOfThisAccount'
  <2> DEFINE S == {s \in Ids : ~sessions[s].revoked}
  <2>1. sessions' = Revoke(S)
    BY <1>3 DEF ChangeAccount
  <2>2. SameRows /\ \A s \in S \cap Ids : sessions'[s].revoked
    <3> HIDE DEF S
    <3> QED BY <2>1, RevokeKeeps
  <2>3. Ids' = Ids /\ \A s \in Ids : sessions'[s].revoked
    BY <2>2, Zenon DEF SameRows, RowsKept, Ids
  <2> QED BY <2>3 DEF SessionsOfThisAccount
<1>4. UNCHANGED account \/ AdvanceRevision => UNCHANGED <<accepted, since>>
  BY DEF account, AdvanceRevision
<1> QED BY <1>1, <1>2, <1>3, <1>4, AccountShape

-----------------------------------------------------------------------------
(* Types of the whole state. *)

LEMMA RowsTypeStep ==
    ASSUME TypeOK, References, [Next]_vars
    PROVE  /\ sessions' \in Seq(SessionRows) /\ Len(sessions') <= MaxSessions
           /\ \A s \in Ids' : sessions'[s].issued <= sessions'[s].seen
<1>1. CASE SameRows
  <2>1. \A s \in Ids : sessions[s] \in SessionRows
    BY SessionsType
  <2>2. Ids' = Ids /\ \A s \in Ids : sessions'[s] \in SessionRows
    BY <1>1, ElementOfSeq DEF SameRows, Ids
  <2>3. \A s \in Ids : sessions'[s].issued <= sessions'[s].seen
    <3> SUFFICES ASSUME NEW s \in Ids PROVE sessions'[s].issued <= sessions'[s].seen
      OBVIOUS
    <3>1. sessions'[s].issued = sessions[s].issued /\ sessions'[s].seen >= sessions[s].seen
      BY <1>1, Zenon DEF SameRows, RowsKept
    <3>2. sessions[s].issued <= sessions[s].seen
      BY DEF TypeOK
    <3>3. /\ sessions[s].issued \in Nat /\ sessions[s].seen \in Nat
          /\ sessions'[s].issued \in Nat /\ sessions'[s].seen \in Nat
      BY <2>1, <2>2 DEF SessionRows
    <3> QED BY <3>1, <3>2, <3>3
  <2> QED BY <1>1, <2>2, <2>3 DEF SameRows, TypeOK
<1>2. ASSUME NEW t \in Tasks, AddsRow(t)
      PROVE  /\ sessions' \in Seq(SessionRows) /\ Len(sessions') <= MaxSessions
             /\ \A s \in Ids' : sessions'[s].issued <= sessions'[s].seen
  <2> DEFINE n == Len(sessions) + 1
  <2>1. Ids' = Ids \cup {n} /\ n \notin Ids
    BY <1>2, SessionsType DEF AddsRow, Ids
  <2>2. \A s \in Ids : sessions[s] \in SessionRows
    BY SessionsType
  <2>3. \A s \in Ids' : sessions'[s] \in SessionRows
    BY <1>2, ElementOfSeq DEF AddsRow, Ids
  <2>4. \A s \in Ids : sessions'[s].issued <= sessions'[s].seen
    <3> SUFFICES ASSUME NEW s \in Ids PROVE sessions'[s].issued <= sessions'[s].seen
      OBVIOUS
    <3>1. sessions'[s].issued = sessions[s].issued /\ sessions'[s].seen >= sessions[s].seen
      BY <1>2, Zenon DEF AddsRow, RowsKept
    <3>2. sessions[s].issued <= sessions[s].seen
      BY DEF TypeOK
    <3>3. /\ sessions[s].issued \in Nat /\ sessions[s].seen \in Nat
          /\ sessions'[s].issued \in Nat /\ sessions'[s].seen \in Nat
      BY <2>1, <2>2, <2>3 DEF SessionRows
    <3> QED BY <3>1, <3>2, <3>3
  <2>5. sessions'[n].issued <= sessions'[n].seen
    BY <1>2 DEF AddsRow
  <2>6. Len(sessions') <= MaxSessions /\ sessions' \in Seq(SessionRows)
    BY <1>2, SessionsType, BoundsAssumption DEF AddsRow
  <2> HIDE DEF n
  <2> QED BY <2>1, <2>4, <2>5, <2>6
<1> QED BY <1>1, <1>2, StepShape, SameSessions DEF Calm, ConsumeLoginAttempt

LEMMA AttemptRow ==
    ASSUME TypeOK, NEW s \in {0} \cup Ids, Len(attempts) < MaxAttempts,
           attempts' = Append(attempts, [session |-> s, open |-> TRUE])
    PROVE  attempts' \in Seq(Attempts) /\ Len(attempts') <= MaxAttempts
<1>1. s \in 0..MaxSessions
  BY SessionsType, BoundsAssumption DEF TypeOK, Ids
<1>2. [session |-> s, open |-> TRUE] \in Attempts
  BY <1>1 DEF Attempts
<1> QED BY <1>2, SessionsType, BoundsAssumption, AppendProperties DEF TypeOK

LEMMA AttemptsTypeStep ==
    ASSUME TypeOK, [Next]_vars
    PROVE  attempts' \in Seq(Attempts) /\ Len(attempts') <= MaxAttempts
<1>1. CASE UNCHANGED attempts
  BY <1>1 DEF TypeOK
<1>2. CASE BeginLogin
  BY <1>2, AttemptRow DEF BeginLogin
<1>3. ASSUME NEW s \in Ids, BeginRevalidation(s)
      PROVE  attempts' \in Seq(Attempts) /\ Len(attempts') <= MaxAttempts
  BY <1>3, AttemptRow DEF BeginRevalidation
<1>4. ASSUME NEW t \in Tasks, NEW a \in 1..Len(attempts), ConsumeLoginAttempt(t, a)
      PROVE  attempts' \in Seq(Attempts) /\ Len(attempts') <= MaxAttempts
  <2>1. [attempts[a] EXCEPT !.open = FALSE] \in Attempts
    BY SessionsType DEF Attempts
  <2>2. attempts' = [attempts EXCEPT ![a] = [attempts[a] EXCEPT !.open = FALSE]]
    BY <1>4 DEF ConsumeLoginAttempt
  <2> QED BY <2>1, <2>2, ExceptSeq DEF TypeOK
<1> QED BY <1>1, <1>2, <1>3, <1>4
        DEF Next, vars, Tick, Reinstate, AdvanceRevision, RevokeSession, Exchanged, CreateInitialSession,
            LockSession, RotateSession, Authenticate, TouchSession, StartRevocation, LockUser,
            ChangeAccount, RevokeSessions, Rollback

LEMMA TaskTypeStep ==
    ASSUME TypeOK, [Next]_vars
    PROVE  task' \in [Tasks -> {Free} \cup Calls]
<1> DEFINE Set == task' \in [Tasks -> {Free} \cup Calls]
<1>1. CASE UNCHANGED task
  BY <1>1 DEF TypeOK
<1>2. ASSUME NEW t \in Tasks, End(t) PROVE Set
  BY <1>2, EndSet
<1>3. ASSUME NEW t \in Tasks, NEW a \in 1..Len(attempts), ConsumeLoginAttempt(t, a) PROVE Set
  <2> DEFINE x == [kind |-> "callback", step |-> "exchange", at |-> now,
                   attempt |-> a, session |-> attempts[a].session]
  <2>1. now \in 0..MaxTime /\ a \in 1..MaxAttempts /\ attempts[a].session \in 0..MaxSessions
    BY SessionsType, BoundsAssumption DEF TypeOK, Attempts
  <2>2. x \in AnyCall
    BY <2>1 DEF AnyCall, Callbacks
  <2>3. task' = [task EXCEPT ![t] = x]
    BY <1>3 DEF ConsumeLoginAttempt
  <2> HIDE DEF x
  <2> QED BY <2>2, <2>3, CallSet
<1>4. ASSUME NEW t \in Tasks, Exchanged(t) PROVE Set
  <2> DEFINE x == [task[t] EXCEPT !.step = "begin", !.at = now]
  <2>1. task[t] \in Callbacks /\ now \in 0..MaxTime
    BY <1>4, CallType DEF Exchanged, TypeOK
  <2>2. x \in AnyCall
    BY <2>1 DEF AnyCall, Callbacks
  <2>3. task' = [task EXCEPT ![t] = x]
    BY <1>4, <2>1 DEF Exchanged, TypeOK, Callbacks
  <2> HIDE DEF x
  <2> QED BY <2>2, <2>3, CallSet
<1>5. ASSUME NEW t \in Tasks, LockSession(t) \/ LockUser(t) PROVE Set
  <2> DEFINE x == [task[t] EXCEPT !.step = "locked"]
  <2>1. task[t] \in Callbacks \cup RevocationCalls
    BY <1>5, CallType DEF LockSession, LockUser
  <2>2. x \in AnyCall
    BY <2>1 DEF AnyCall, Callbacks, RevocationCalls
  <2>3. task' = [task EXCEPT ![t] = x]
    BY <1>5 DEF LockSession, LockUser
  <2> HIDE DEF x
  <2> QED BY <2>2, <2>3, CallSet
<1>6. ASSUME NEW t \in Tasks, NEW s \in Ids, Authenticate(t, s) PROVE Set
  <2> DEFINE x == [kind |-> "touch", at |-> now, session |-> s]
  <2>1. now \in 0..MaxTime /\ s \in 1..MaxSessions
    BY SessionsType, BoundsAssumption DEF TypeOK, Ids
  <2>2. x \in AnyCall
    BY <2>1 DEF AnyCall, Touches
  <2>3. task' = [task EXCEPT ![t] = x]
    BY <1>6 DEF Authenticate
  <2> HIDE DEF x
  <2> QED BY <2>2, <2>3, CallSet
<1>7. ASSUME NEW t \in Tasks, NEW kind \in Revocations, NEW s \in {0} \cup Ids, NEW to \in BOOLEAN,
             StartRevocation(t, kind, s, to)
      PROVE  Set
  <2> DEFINE x == [kind |-> kind, step |-> "begin", at |-> now,
                   session |-> s, revision |-> revision, to |-> to]
  <2>1. now \in 0..MaxTime /\ s \in 0..MaxSessions /\ revision \in 1..MaxRevision
    BY SessionsType, BoundsAssumption DEF TypeOK, Ids
  <2>2. x \in AnyCall
    BY <2>1 DEF AnyCall, RevocationCalls
  <2>3. task' = [task EXCEPT ![t] = x]
    BY <1>7 DEF StartRevocation
  <2> HIDE DEF x
  <2> QED BY <2>2, <2>3, CallSet
<1> QED BY <1>1, <1>2, <1>3, <1>4, <1>5, <1>6, <1>7
        DEF Next, vars, Tick, BeginLogin, Reinstate, AdvanceRevision, BeginRevalidation, RevokeSession,
            CreateInitialSession, RotateSession, TouchSession, ChangeAccount, RevokeSessions, Rollback

LEMMA AccountTypeStep ==
    ASSUME TypeOK, [Next]_vars
    PROVE  now' \in 0..MaxTime /\ accepted' \in BOOLEAN /\ revision' \in 1..MaxRevision /\ since' \in 1..revision'
<1>1. now' \in 0..MaxTime
  <2>1. CASE Tick
    BY <2>1, BoundsAssumption DEF Tick, TypeOK
  <2>2. CASE UNCHANGED now
    BY <2>2 DEF TypeOK
  <2> QED BY <2>1, <2>2
        DEF Next, vars, BeginLogin, Reinstate, AdvanceRevision, BeginRevalidation, RevokeSession,
            ConsumeLoginAttempt, Exchanged, CreateInitialSession, LockSession, RotateSession,
            Authenticate, TouchSession, StartRevocation, LockUser, ChangeAccount, RevokeSessions,
            Rollback
<1>2. CASE UNCHANGED account
  BY <1>1, <1>2 DEF TypeOK
<1>3. CASE Reinstate \/ AdvanceRevision
  <2>1. revision \in 1..(MaxRevision - 1) /\ since \in 1..revision
    BY <1>3, BoundsAssumption DEF Reinstate, AdvanceRevision, TypeOK
  <2>2. revision' = revision + 1 /\ (since' = since \/ since' = revision + 1)
    BY <1>3 DEF Reinstate, AdvanceRevision
  <2>3. revision' \in 1..MaxRevision /\ since' \in 1..revision'
    BY <2>1, <2>2, BoundsAssumption
  <2>4. accepted' \in BOOLEAN
    BY <1>3 DEF Reinstate, AdvanceRevision, TypeOK
  <2> QED BY <1>1, <2>3, <2>4
<1>4. ASSUME NEW t \in Tasks, ChangeAccount(t)
      PROVE  accepted' \in BOOLEAN /\ revision' \in 1..MaxRevision /\ since' \in 1..revision'
  <2>1. task[t].to \in BOOLEAN
    BY <1>4, CallType DEF ChangeAccount, Revocations, RevocationCalls
  <2>2. accepted' = task[t].to /\ revision' = revision + 1 /\ since' = revision + 1 /\ revision < MaxRevision
    BY <1>4 DEF ChangeAccount
  <2> QED BY <2>1, <2>2, BoundsAssumption DEF TypeOK
<1> QED BY <1>1, <1>2, <1>3, <1>4, AccountShape

LEMMA TypeStep == TypeOK /\ References /\ [Next]_vars => TypeOK'
<1> SUFFICES ASSUME TypeOK, References, [Next]_vars PROVE TypeOK'
  OBVIOUS
<1>1. /\ now' \in 0..MaxTime /\ accepted' \in BOOLEAN /\ revision' \in 1..MaxRevision /\ since' \in 1..revision'
      /\ attempts' \in Seq(Attempts) /\ Len(attempts') <= MaxAttempts
      /\ sessions' \in Seq(SessionRows) /\ Len(sessions') <= MaxSessions
      /\ \A s \in Ids' : sessions'[s].issued <= sessions'[s].seen
      /\ task' \in [Tasks -> {Free} \cup Calls]
  BY AccountTypeStep, AttemptsTypeStep, RowsTypeStep, TaskTypeStep
<1> QED BY <1>1, Zenon DEF TypeOK

-----------------------------------------------------------------------------

LEMMA InitIInv == Init => IInv
<1> SUFFICES ASSUME Init PROVE IInv
  OBVIOUS
<1>1. TypeOK
  BY BoundsAssumption, EmptySeq DEF Init, TypeOK, Ids
<1>2. Ids = {} /\ 1..Len(attempts) = {} /\ \A t \in Tasks : task[t].kind = "free"
  BY EmptySeq DEF Init, Ids, Free
<1> QED BY <1>1, <1>2
        DEF IInv, References, AttemptsAreUsedOnce, OneSession, AttemptYieldsOneSession,
            OneSessionPerLogin, SessionsOfThisAccount, Callback

LEMMA StepIInv == IInv /\ [Next]_vars => IInv'
  BY TypeStep, ReferencesStep, AttemptsStep, OneSessionStep, AccountStep DEF IInv, OneSession

LEMMA Invariance == Spec => []IInv
  BY InitIInv, StepIInv, PTL DEF Spec

\* Every variable keeps its type, for any number of calls on the account, and
\* no row of the account leaves the width of its revision.
THEOREM TypeCorrect == Spec => []TypeOK
<1>1. IInv => TypeOK
  BY DEF IInv
<1> QED BY <1>1, Invariance, PTL

\* However often callbacks are delivered and however revalidations overlap, an
\* attempt makes at most one session and a sign-in has at most one that is good.
THEOREM OneSessionAlways == Spec => []OneSession
<1>1. IInv => OneSession
  BY DEF IInv
<1> QED BY <1>1, Invariance, PTL

\* A session that is not revoked was made since the last role change by
\* form or suspension of its account, and the account is accepted.
THEOREM SessionsAreOfThisAccount == Spec => []SessionsOfThisAccount
<1>1. IInv => SessionsOfThisAccount
  BY DEF IInv
<1> QED BY <1>1, Invariance, PTL

-----------------------------------------------------------------------------
(* What a step may do. *)

LEMMA NoReturn ==
    ASSUME IInv, [Next]_vars, NEW s \in Ids, NEW r \in DOMAIN sessions',
           sessions'[r].login = sessions[s].login, ~sessions'[r].revoked
    PROVE  \E q \in DOMAIN sessions : sessions[q].login = sessions[s].login /\ ~sessions[q].revoked
<1> USE DEF IInv
<1>1. DOMAIN sessions = Ids
  BY SessionsType
<1>2. CASE SameRows
  <2>1. DOMAIN sessions' = Ids
    BY <1>2, LenProperties DEF SameRows, Ids
  <2> QED BY <1>1, <1>2, <2>1, RowsOfNext, Zenon
<1>3. ASSUME NEW t \in Tasks, AddsRow(t)
      PROVE  \E q \in Ids : sessions[q].login = sessions[s].login /\ ~sessions[q].revoked
  <2> DEFINE n == Len(sessions) + 1
  <2>1. DOMAIN sessions' = Ids \cup {n} /\ n \notin Ids
    <3>1. DOMAIN sessions' = 1..Len(sessions')
      BY <1>3, LenProperties DEF AddsRow
    <3> QED BY <1>3, <3>1, SessionsType DEF AddsRow, Ids
  <2>2. \A q \in Ids : /\ sessions'[q].login = sessions[q].login
                       /\ ~sessions'[q].revoked => ~sessions[q].revoked
    BY <1>3, Zenon DEF AddsRow, RowsKept
  <2>3. \/ sessions'[n].login = n
        \/ \E q \in Ids : ~sessions[q].revoked /\ sessions'[n].login = sessions[q].login
    BY <1>3 DEF AddsRow, Replaces
  <2>4. sessions[s].login \in Ids
    BY DEF References
  <2> HIDE DEF n
  <2>5. CASE r \in Ids
    BY <2>2, <2>5, Zenon
  <2>6. CASE r = n
    BY <2>1, <2>3, <2>4, <2>6
  <2> QED BY <2>1, <2>5, <2>6
<1> QED BY <1>1, <1>2, <1>3, StepShape, SameSessions DEF Calm, ConsumeLoginAttempt

LEMMA SeenRises ==
    ASSUME IInv, [Next]_vars, NEW s \in Ids
    PROVE  sessions'[s].seen >= sessions[s].seen
<1>1. CASE SameRows
  BY <1>1, Zenon DEF SameRows, RowsKept
<1>2. ASSUME NEW t \in Tasks, AddsRow(t) PROVE sessions'[s].seen >= sessions[s].seen
  BY <1>2, Zenon DEF AddsRow, RowsKept
<1> QED BY <1>1, <1>2, StepShape, SameSessions DEF Calm, ConsumeLoginAttempt, IInv

\* No late write of a callback, a revalidation or a request takes back the end
\* of a sign-in or a sign of life.
THEOREM SessionsOnlyEndAlways == Spec => SessionsOnlyEnd
<1>1. IInv /\ [Next]_vars =>
        [\A s \in Ids :
           LET Alive(rows) == \E r \in DOMAIN rows : rows[r].login = sessions[s].login /\ ~rows[r].revoked
           IN Alive(sessions') => Alive(sessions)]_vars
  BY NoReturn
<1>2. IInv /\ [Next]_vars => [\A s \in Ids : sessions'[s].seen >= sessions[s].seen]_vars
  BY SeenRises
<1> QED BY <1>1, <1>2, Invariance, PTL DEF Spec, SessionsOnlyEnd, DeadLoginsStayDead, SeenNeverGoesBack
=============================================================================
