-------------------- MODULE IdentityReconciliationProofs --------------------
(***************************************************************************)
(* Proofs about IdentityReconciliation, for every set of users, requests   *)
(* and reconcilers and every value of the bounds.                          *)
(***************************************************************************)
EXTENDS IdentityReconciliation, FiniteSetTheorems, TLAPS

USE DEF row, bounds, vars

\* A write to a row keeps the types of what it writes.
LEMMA AdvanceType ==
    ASSUME TypeOK, NEW u \in Users, NEW state \in SyncStates, NEW now \in BOOLEAN,
           Advance(u, state, now)
    PROVE  /\ sync' \in [Users -> SyncStates]
           /\ revision' \in [Users -> 1..MaxRevision]
           /\ due' \in [Users -> BOOLEAN]
  BY BoundsAssumption DEF TypeOK, Advance

\* A request or a claim starts a well-formed task.
LEMMA NewTaskType ==
    ASSUME TypeOK, NEW u \in Users, NEW a \in Users \cup Reconcilers,
           NEW o \in {"suspend", "reinstate", "manual", "expiry"},
           NEW i \in RequiredStates
    PROVE  NewTask(o, i, u, a) \in ActiveTasks
  BY DEF TypeOK, NewTask, ActiveTasks

\* What a request writes besides the row when it begins.
LEMMA BeginType ==
    ASSUME TypeOK, NEW r \in Requests, NEW t \in ActiveTasks, Begin(r, t)
    PROVE  /\ task' \in [Workers -> ActiveTasks \cup {Idle}]
           /\ begun' \in 0..MaxRequests
           /\ UNCHANGED <<groups, claims, failures, interrupts>>
  BY BoundsAssumption DEF TypeOK, Begin, Workers

\* A worker in a named phase runs a well-formed task.
LEMMA RunningType ==
    ASSUME TypeOK, NEW w \in Workers, task[w] # Idle
    PROVE  task[w] \in ActiveTasks
  BY DEF TypeOK

LEMMA PhaseType ==
    ASSUME TypeOK, NEW w \in Workers,
           task[w].phase \in {"begin", "load", "remote", "record", "complete", "commit"}
    PROVE  task[w] \in ActiveTasks
  BY DEF TypeOK, Idle

\* A remote call keeps an identity within the groups the Board knows.
LEMMA RemoteEffectType ==
    ASSUME NEW t \in ActiveTasks, t.step < 4, NEW g \in SUBSET GroupNames
    PROVE  RemoteEffect(t, g) \in SUBSET GroupNames
  BY DEF ActiveTasks, RemoteEffect, Joined, GroupNames

-----------------------------------------------------------------------------
(* Type correctness: one step per action. *)

LEMMA TypeStep == TypeOK /\ [Next]_vars => TypeOK'
<1> SUFFICES ASSUME TypeOK, [Next]_vars PROVE TypeOK'
  OBVIOUS
<1>1. ASSUME NEW r \in Requests, NEW a \in Users, NEW u \in Users, SuspendUser(r, a, u)
      PROVE  TypeOK'
  <2>1. /\ sync' \in [Users -> SyncStates]
        /\ revision' \in [Users -> 1..MaxRevision]
        /\ due' \in [Users -> BOOLEAN]
    BY <1>1, AdvanceType DEF SuspendUser, SuspendUserAndAudit, SyncStates, RequiredStates
  <2>2. NewTask("suspend", "removal_required", u, a) \in ActiveTasks
    BY NewTaskType DEF RequiredStates
  <2>3. /\ suspension' \in [Users -> Suspensions]
        /\ session' \in [Users -> BOOLEAN]
    BY <1>1 DEF SuspendUser, SuspendUserAndAudit, TypeOK, Suspensions
  <2> QED
    BY <1>1, <2>1, <2>2, <2>3, BeginType DEF SuspendUser, TypeOK
<1>2. ASSUME NEW r \in Requests, NEW a \in Users, NEW u \in Users,
             AuthorizeReinstatement(r, a, u)
      PROVE  TypeOK'
  <2>1. NewTask("reinstate", "grant_required", u, a) \in ActiveTasks
    BY NewTaskType DEF RequiredStates
  <2>2. [NewTask("reinstate", "grant_required", u, a)
           EXCEPT !.phase = "begin", !.revision = 0] \in ActiveTasks
    BY <2>1 DEF ActiveTasks
  <2> QED
    BY <1>2, <2>2, BeginType DEF AuthorizeReinstatement, TypeOK
<1>2a. ASSUME NEW r \in Requests, BeginIdentityReinstatement(r)
       PROVE  TypeOK'
  <2>1. r \in Workers /\ task[r] \in ActiveTasks
    BY <1>2a, PhaseType DEF BeginIdentityReinstatement, Workers
  <2>2. task[r].user \in Users /\ revision[task[r].user] + 1 \in Nat
    BY <2>1 DEF ActiveTasks, TypeOK
  <2>3. CASE Conflict(r, "begin", /\ suspension[task[r].user] # "none"
                                  /\ revision[task[r].user] < MaxRevision)
    BY <2>1, <2>3 DEF Conflict, Ends, TypeOK
  <2>4. CASE /\ Advance(task[r].user, "grant_required", TRUE)
             /\ task' = [task EXCEPT ![r].phase = "remote",
                                     ![r].revision = revision[task[r].user] + 1]
             /\ UNCHANGED <<suspension, session, groups, claims, bounds>>
    <3>1. [task[r] EXCEPT !.phase = "remote", !.revision = revision[task[r].user] + 1]
            \in ActiveTasks
      BY <2>1, <2>2 DEF ActiveTasks
    <3>2. task' \in [Workers -> ActiveTasks \cup {Idle}]
      BY <2>4, <3>1 DEF TypeOK
    <3>3. /\ sync' \in [Users -> SyncStates]
          /\ revision' \in [Users -> 1..MaxRevision]
          /\ due' \in [Users -> BOOLEAN]
      BY <2>2, <2>4, AdvanceType DEF SyncStates, RequiredStates
    <3> QED
      BY <2>4, <3>2, <3>3 DEF TypeOK
  <2> QED
    BY <1>2a, <2>3, <2>4 DEF BeginIdentityReinstatement
<1>3. ASSUME NEW r \in Requests, NEW a \in Users, NEW u \in Users,
             BeginManualIdentityReconciliation(r, a, u)
      PROVE  TypeOK'
  <2>1. /\ sync' \in [Users -> SyncStates]
        /\ revision' \in [Users -> 1..MaxRevision]
        /\ due' \in [Users -> BOOLEAN]
    BY <1>3, AdvanceType DEF BeginManualIdentityReconciliation, SyncStates
  <2>2. NewTask("manual", sync[u], u, a) \in ActiveTasks
    BY <1>3, NewTaskType DEF BeginManualIdentityReconciliation
  <2> QED
    BY <1>3, <2>1, <2>2, BeginType DEF BeginManualIdentityReconciliation, TypeOK
<1>4. ASSUME NEW r \in Requests, LoadSuspendedIdentityTarget(r)
      PROVE  TypeOK'
  <2>1. r \in Workers /\ task[r] \in ActiveTasks
    BY <1>4, PhaseType DEF LoadSuspendedIdentityTarget, Workers
  <2>2. [task[r] EXCEPT !.phase = "remote"] \in ActiveTasks
    BY <2>1 DEF ActiveTasks
  <2> QED
    BY <1>4, <2>1, <2>2 DEF LoadSuspendedIdentityTarget, Ends, TypeOK
<1>5. ASSUME NEW w \in Workers, RemoteCall(w)
      PROVE  TypeOK'
  <2>1. task[w] \in ActiveTasks
    BY <1>5, PhaseType DEF RemoteCall
  <2>2. [task[w] EXCEPT !.step = @ + 1] \in ActiveTasks
    BY <1>5, <2>1 DEF ActiveTasks, RemoteCall
  <2>3. groups' \in [Users -> SUBSET GroupNames]
    BY <1>5, <2>1, RemoteEffectType DEF RemoteCall, TypeOK, ActiveTasks
  <2> QED
    BY <1>5, <2>1, <2>2, <2>3 DEF RemoteCall, TypeOK
<1>6. ASSUME NEW w \in Workers, RemoteVerify(w)
      PROVE  TypeOK'
  <2>1. task[w] \in ActiveTasks
    BY <1>6, PhaseType DEF RemoteVerify
  <2>2. \A p \in {"record", "complete"} : [task[w] EXCEPT !.phase = p] \in ActiveTasks
    BY <2>1 DEF ActiveTasks
  <2> QED
    BY <1>6, <2>1, <2>2 DEF RemoteVerify, TypeOK
<1>7. ASSUME NEW w \in Workers, RemoteFailure(w)
      PROVE  TypeOK'
  <2>1. task[w] \in ActiveTasks
    BY <1>7, PhaseType DEF RemoteFailure
  <2>2. [task[w] EXCEPT !.phase = "record"] \in ActiveTasks
    BY <2>1 DEF ActiveTasks
  <2>3. groups' \in [Users -> SUBSET GroupNames]
    BY <1>7, <2>1, RemoteEffectType DEF RemoteFailure, TypeOK, ActiveTasks
  <2>4. failures' \in 0..MaxFailures
    BY <1>7, BoundsAssumption DEF RemoteFailure, TypeOK
  <2> QED
    BY <1>7, <2>1, <2>2, <2>3, <2>4 DEF RemoteFailure, TypeOK
<1>8. ASSUME NEW r \in Requests, RecordIdentityReconciliationFailure(r)
      PROVE  TypeOK'
  <2>1. r \in Workers /\ task[r] \in ActiveTasks
    BY <1>8, PhaseType DEF RecordIdentityReconciliationFailure, Conflict, Workers
  <2>2. CASE Conflict(r, "record", CanRecordFailure(task[r]))
    BY <2>1, <2>2 DEF Conflict, Ends, TypeOK
  <2>3. CASE Advance(task[r].user, task[r].intent, FALSE) /\ Ends(r)
             /\ UNCHANGED <<suspension, session, groups, claims, bounds>>
    BY <2>1, <2>3, AdvanceType DEF Ends, TypeOK, ActiveTasks, SyncStates
  <2> QED
    BY <1>8, <2>2, <2>3 DEF RecordIdentityReconciliationFailure
<1>9. ASSUME NEW r \in Requests, CompleteIdentityRemoval(r)
      PROVE  TypeOK'
  <2>1. r \in Workers /\ task[r] \in ActiveTasks
    BY <1>9, PhaseType DEF CompleteIdentityRemoval, Workers
  <2>2. CASE Conflict(r, "complete", CanCompleteRemoval(task[r]))
    BY <2>1, <2>2 DEF Conflict, Ends, TypeOK
  <2>3. CASE Advance(task[r].user, "suspended", TRUE) /\ Ends(r)
             /\ UNCHANGED <<suspension, session, groups, claims, bounds>>
    BY <2>1, <2>3, AdvanceType DEF Ends, TypeOK, ActiveTasks, SyncStates
  <2> QED
    BY <1>9, <2>2, <2>3 DEF CompleteIdentityRemoval
<1>10. ASSUME NEW r \in Requests, CompleteIdentityReinstatement(r)
       PROVE  TypeOK'
  <2>1. r \in Workers /\ task[r] \in ActiveTasks
    BY <1>10, PhaseType DEF CompleteIdentityReinstatement, Workers
  <2>2. CASE \E p, m : Conflict(r, p, m)
    BY <2>1, <2>2 DEF Conflict, Ends, TypeOK
  <2>3. CASE Advance(task[r].user, "accepted", TRUE) /\ Ends(r)
             /\ suspension' = [suspension EXCEPT ![task[r].user] = "none"]
             /\ UNCHANGED <<session, groups, claims, bounds>>
    BY <2>1, <2>3, AdvanceType DEF Ends, TypeOK, ActiveTasks, SyncStates, Suspensions
  <2> QED
    BY <1>10, <2>2, <2>3 DEF CompleteIdentityReinstatement
<1>10a. ASSUME NEW r \in Requests, AuthorizeCompletion(r)
        PROVE  TypeOK'
  <2>1. r \in Workers /\ task[r] \in ActiveTasks
    BY <1>10a, PhaseType DEF AuthorizeCompletion, Workers
  <2>2. CASE Conflict(r, "complete", CanCompleteReinstatement(task[r]))
    BY <2>1, <2>2 DEF Conflict, Ends, TypeOK
  <2>3. CASE task' = [task EXCEPT ![r].phase = "commit"] /\ UNCHANGED <<row, groups, claims, bounds>>
    <3>1. [task[r] EXCEPT !.phase = "commit"] \in ActiveTasks
      BY <2>1 DEF ActiveTasks
    <3> QED
      BY <2>3, <3>1 DEF TypeOK
  <2> QED
    BY <1>10a, <2>2, <2>3 DEF AuthorizeCompletion
<1>11. ASSUME NEW w \in Reconcilers, ClaimExpiredIdentityReconciliations(w)
       PROVE  TypeOK'
  <2>1. PICK batch \in SUBSET ExpiredCandidates :
          /\ sync' = [u \in Users |-> IF u \in batch THEN "grant_required" ELSE sync[u]]
          /\ revision' = [u \in Users |-> IF u \in batch THEN revision[u] + 1 ELSE revision[u]]
          /\ due' = [u \in Users |-> due[u] /\ u \notin batch]
          /\ claims' = [claims EXCEPT ![w] =
                          {[user |-> u, revision |-> revision[u] + 1] : u \in batch}]
    BY <1>11 DEF ClaimExpiredIdentityReconciliations
  <2>2. batch \subseteq Users /\ \A u \in batch : revision[u] < MaxRevision
    BY DEF ExpiredCandidates
  <2>3. sync' \in [Users -> SyncStates]
    BY <2>1 DEF TypeOK, SyncStates, RequiredStates
  <2>4. revision' \in [Users -> 1..MaxRevision]
    BY <2>1, <2>2, BoundsAssumption DEF TypeOK
  <2>5. due' \in [Users -> BOOLEAN]
    BY <2>1 DEF TypeOK
  <2>6. \A u \in batch : [user |-> u, revision |-> revision[u] + 1]
                            \in [user : Users, revision : Nat]
    BY <2>2 DEF TypeOK
  <2>7. claims' \in [Reconcilers -> SUBSET [user : Users, revision : Nat]]
    BY <2>1, <2>6 DEF TypeOK
  <2> QED
    BY <1>11, <2>3, <2>4, <2>5, <2>7 DEF ClaimExpiredIdentityReconciliations, TypeOK
<1>12. ASSUME NEW w \in Reconcilers, HandleClaim(w)
       PROVE  TypeOK'
  <2>1. PICK c \in claims[w] :
          /\ claims' = [claims EXCEPT ![w] = @ \ {c}]
          /\ task' = [task EXCEPT ![w] =
                        [NewTask("expiry", "grant_required", c.user, w)
                           EXCEPT !.revision = c.revision]]
    BY <1>12 DEF HandleClaim
  <2>2. c.user \in Users /\ c.revision \in Nat
    BY DEF TypeOK
  <2>3. NewTask("expiry", "grant_required", c.user, w) \in ActiveTasks
    BY <2>2, NewTaskType DEF RequiredStates
  <2>4. [NewTask("expiry", "grant_required", c.user, w) EXCEPT !.revision = c.revision]
          \in ActiveTasks
    BY <2>2, <2>3 DEF ActiveTasks
  <2>5. claims' \in [Reconcilers -> SUBSET [user : Users, revision : Nat]]
    BY <2>1 DEF TypeOK
  <2> QED
    BY <1>12, <2>1, <2>4, <2>5 DEF HandleClaim, TypeOK, Workers
<1>13. ASSUME NEW w \in Reconcilers, NEW p, NEW m, Superseded(w, p, m)
       PROVE  TypeOK'
  BY <1>13 DEF Superseded, Ends, TypeOK, Workers
<1>14. ASSUME NEW w \in Reconcilers, RecordExpiredIdentityReconciliationFailure(w)
       PROVE  TypeOK'
  <2>1. CASE Superseded(w, "record", CanRecordFailure(task[w]))
    BY <2>1, <1>13
  <2>2. CASE task[w].phase = "record" /\ Advance(task[w].user, "grant_required", FALSE)
             /\ Ends(w) /\ UNCHANGED <<suspension, session, groups, claims, bounds>>
    <3>1. w \in Workers /\ task[w] \in ActiveTasks
      BY <2>2, PhaseType DEF Workers
    <3> QED
      BY <2>2, <3>1, AdvanceType DEF Ends, TypeOK, ActiveTasks, SyncStates, RequiredStates
  <2> QED
    BY <1>14, <2>1, <2>2 DEF RecordExpiredIdentityReconciliationFailure
<1>15. ASSUME NEW w \in Reconcilers, CompleteExpiredIdentityReconciliation(w)
       PROVE  TypeOK'
  <2>1. CASE Superseded(w, "complete", CanCompleteExpired(task[w]))
    BY <2>1, <1>13
  <2>2. CASE /\ task[w].phase = "complete" /\ Advance(task[w].user, "accepted", TRUE)
             /\ suspension' = [suspension EXCEPT ![task[w].user] = "none"]
             /\ Ends(w) /\ UNCHANGED <<session, groups, claims, bounds>>
    <3>1. w \in Workers /\ task[w] \in ActiveTasks
      BY <2>2, PhaseType DEF Workers
    <3> QED
      BY <2>2, <3>1, AdvanceType DEF Ends, TypeOK, ActiveTasks, SyncStates, Suspensions
  <2> QED
    BY <1>15, <2>1, <2>2 DEF CompleteExpiredIdentityReconciliation
<1>16. ASSUME NEW u \in Users,
              CreateInitialSession(u) \/ RevokeSession(u) \/ SuspensionExpires(u)
                \/ BackoffElapses(u)
       PROVE  TypeOK'
  BY <1>16 DEF CreateInitialSession, RevokeSession, SuspensionExpires, BackoffElapses,
               TypeOK, Suspensions
<1>17. ASSUME NEW lost \in SUBSET Workers, Interrupt(lost)
       PROVE  TypeOK'
  BY <1>17, BoundsAssumption DEF Interrupt, TypeOK
<1>18. CASE UNCHANGED vars
  BY <1>18 DEF TypeOK
<1> QED
  BY <1>1, <1>2, <1>2a, <1>3, <1>4, <1>5, <1>6, <1>7, <1>8, <1>9, <1>10, <1>10a, <1>11, <1>12,
     <1>14, <1>15, <1>16, <1>17, <1>18
  DEF Next, BeginRequest, RequestStep, RemoteStep, ReconcilerStep, Workers

-----------------------------------------------------------------------------
(* What a step may do to the rows, whichever action takes it. *)

\* A reinstatement that was authorized finds its target still denied, or
\* reinstated by somebody else.
AuthorizedIsDenied ==
    \A w \in Workers : task[w].phase = "begin" =>
        /\ task[w].origin = "reinstate" /\ task[w].intent = "grant_required"
        /\ suspension[task[w].user] = "none" \/ sync[task[w].user] # "accepted"

\* The write of a reinstatement that begins.
RequestReinstated(r, u) ==
    /\ suspension[u] # "none"
    /\ sync[u] # "accepted"
    /\ Advance(u, "grant_required", TRUE)
    /\ UNCHANGED <<suspension, session>>

\* A request commits an intent.
IntentCommitted ==
    \E r \in Requests, a, u \in Users :
        \/ SuspendUser(r, a, u)
        \/ RequestReinstated(r, u)
        \/ BeginManualIdentityReconciliation(r, a, u)

\* The holder of an intent commits its outcome: it is still required, the
\* removal is complete, or access is restored.
OutcomeCommitted ==
    \E u \in Users, state \in SyncStates, now \in BOOLEAN :
        /\ sync[u] \in RequiredStates
        /\ Advance(u, state, now)
        /\ \/ state # "accepted" /\ UNCHANGED suspension
           \/ suspension' = [suspension EXCEPT ![u] = "none"]
        /\ UNCHANGED session

RowStep ==
    \/ UNCHANGED row
    \/ IntentCommitted
    \/ OutcomeCommitted
    \/ \E w \in Reconcilers : ClaimExpiredIdentityReconciliations(w)
    \/ \E u \in Users : \/ CreateInitialSession(u) \/ RevokeSession(u)
                        \/ SuspensionExpires(u) \/ BackoffElapses(u)

\* Every step is one of these.
LEMMA RowSteps == TypeOK /\ AuthorizedIsDenied /\ [Next]_vars => RowStep
<1> SUFFICES ASSUME TypeOK, AuthorizedIsDenied, [Next]_vars PROVE RowStep
  OBVIOUS
<1>1. ASSUME NEW r \in Requests, RecordIdentityReconciliationFailure(r)
      PROVE  RowStep
  <2>1. CASE Conflict(r, "record", CanRecordFailure(task[r]))
    BY <2>1 DEF Conflict, RowStep
  <2>2. CASE /\ task[r].phase = "record" /\ OwnsRow(task[r])
             /\ Advance(task[r].user, task[r].intent, FALSE)
             /\ UNCHANGED <<suspension, session>>
    <3>1. task[r] \in ActiveTasks
      BY <2>2, PhaseType DEF Workers
    <3>2. task[r].user \in Users /\ task[r].intent \in RequiredStates
      BY <3>1 DEF ActiveTasks
    <3> QED
      BY <2>2, <3>2 DEF OwnsRow, OutcomeCommitted, RowStep, SyncStates, RequiredStates
  <2> QED
    BY <1>1, <2>1, <2>2 DEF RecordIdentityReconciliationFailure
<1>2. ASSUME NEW r \in Requests, CompleteIdentityRemoval(r)
      PROVE  RowStep
  <2>1. CASE Conflict(r, "complete", CanCompleteRemoval(task[r]))
    BY <2>1 DEF Conflict, RowStep
  <2>2. CASE /\ task[r].phase = "complete" /\ OwnsRow(task[r])
             /\ Advance(task[r].user, "suspended", TRUE)
             /\ UNCHANGED <<suspension, session>>
    <3>1. task[r] \in ActiveTasks
      BY <2>2, PhaseType DEF Workers
    <3>2. task[r].user \in Users /\ task[r].intent \in RequiredStates
      BY <3>1 DEF ActiveTasks
    <3> QED
      BY <2>2, <3>2 DEF OwnsRow, OutcomeCommitted, RowStep, SyncStates, RequiredStates
  <2> QED
    BY <1>2, <2>1, <2>2 DEF CompleteIdentityRemoval, CanCompleteRemoval
<1>3. ASSUME NEW r \in Requests, CompleteIdentityReinstatement(r)
      PROVE  RowStep
  <2>1. CASE \E p, m : Conflict(r, p, m)
    BY <2>1 DEF Conflict, RowStep
  <2>2. CASE /\ OwnsRow(task[r])
             /\ Advance(task[r].user, "accepted", TRUE)
             /\ suspension' = [suspension EXCEPT ![task[r].user] = "none"]
             /\ UNCHANGED session
    <3>1. task[r] \in ActiveTasks
      BY <1>3, PhaseType DEF CompleteIdentityReinstatement, Workers
    <3>2. task[r].user \in Users /\ task[r].intent \in RequiredStates
      BY <3>1 DEF ActiveTasks
    <3> QED
      BY <2>2, <3>2 DEF OwnsRow, OutcomeCommitted, RowStep, SyncStates, RequiredStates
  <2> QED
    BY <1>3, <2>1, <2>2 DEF CompleteIdentityReinstatement, CanCompleteReinstatement,
                            CanCommitReinstatement
<1>3a. ASSUME NEW r \in Requests, BeginIdentityReinstatement(r)
       PROVE  RowStep
  <2>1. CASE \E p, m : Conflict(r, p, m)
    BY <2>1 DEF Conflict, RowStep
  <2>2. CASE RequestReinstated(r, task[r].user)
    <3>1. task[r] \in ActiveTasks
      BY <1>3a, PhaseType DEF BeginIdentityReinstatement, Workers
    <3>2. task[r].user \in Users /\ Users # {}
      BY <3>1 DEF ActiveTasks
    <3> QED
      BY <2>2, <3>2 DEF IntentCommitted, RowStep
  <2> QED
    BY <1>3a, <2>1, <2>2 DEF BeginIdentityReinstatement, RequestReinstated,
                             AuthorizedIsDenied, Workers
<1>4. ASSUME NEW w \in Reconcilers, RecordExpiredIdentityReconciliationFailure(w)
      PROVE  RowStep
  <2>1. CASE Superseded(w, "record", CanRecordFailure(task[w]))
    BY <2>1 DEF Superseded, RowStep
  <2>2. CASE /\ task[w].phase = "record" /\ OwnsRow(task[w])
             /\ Advance(task[w].user, "grant_required", FALSE)
             /\ UNCHANGED <<suspension, session>>
    <3>1. task[w] \in ActiveTasks
      BY <2>2, PhaseType DEF Workers
    <3>2. task[w].user \in Users /\ task[w].intent \in RequiredStates
      BY <3>1 DEF ActiveTasks
    <3> QED
      BY <2>2, <3>2 DEF OwnsRow, OutcomeCommitted, RowStep, SyncStates, RequiredStates
  <2> QED
    BY <1>4, <2>1, <2>2 DEF RecordExpiredIdentityReconciliationFailure
<1>5. ASSUME NEW w \in Reconcilers, CompleteExpiredIdentityReconciliation(w)
      PROVE  RowStep
  <2>1. CASE Superseded(w, "complete", CanCompleteExpired(task[w]))
    BY <2>1 DEF Superseded, RowStep
  <2>2. CASE /\ task[w].phase = "complete" /\ OwnsRow(task[w])
             /\ Advance(task[w].user, "accepted", TRUE)
             /\ suspension' = [suspension EXCEPT ![task[w].user] = "none"]
             /\ UNCHANGED session
    <3>1. task[w] \in ActiveTasks
      BY <2>2, PhaseType DEF Workers
    <3>2. task[w].user \in Users /\ task[w].intent \in RequiredStates
      BY <3>1 DEF ActiveTasks
    <3> QED
      BY <2>2, <3>2 DEF OwnsRow, OutcomeCommitted, RowStep, SyncStates, RequiredStates
  <2> QED
    BY <1>5, <2>1, <2>2 DEF CompleteExpiredIdentityReconciliation, CanCompleteExpired
<1>6. ASSUME NEW r \in Requests, BeginRequest(r)
      PROVE  RowStep
  BY <1>6 DEF BeginRequest, AuthorizeReinstatement, IntentCommitted, RowStep
<1>7. ASSUME NEW w \in Workers, \/ RemoteStep(w) \/ RemoteFailure(w)
                                \/ LoadSuspendedIdentityTarget(w) \/ AuthorizeCompletion(w)
      PROVE  RowStep
  BY <1>7 DEF RemoteStep, RemoteCall, RemoteVerify, RemoteFailure,
              LoadSuspendedIdentityTarget, AuthorizeCompletion, Conflict, RowStep
<1>8. ASSUME NEW w \in Reconcilers, HandleClaim(w)
      PROVE  RowStep
  BY <1>8 DEF HandleClaim, RowStep
<1>9. ASSUME NEW lost \in SUBSET Workers, Interrupt(lost)
      PROVE  RowStep
  BY <1>9 DEF Interrupt, RowStep
<1>10. CASE UNCHANGED vars
  BY <1>10 DEF RowStep
<1> QED
  BY <1>1, <1>2, <1>3, <1>3a, <1>4, <1>5, <1>6, <1>7, <1>8, <1>9, <1>10
  DEF Next, RequestStep, ReconcilerStep, RowStep, Workers

\* A step keeps a user who is denied or not suspended that way.
LEMMA DenialKept ==
    ASSUME TypeOK, RowStep, NEW u \in Users, suspension[u] = "none" \/ sync[u] # "accepted"
    PROVE  suspension'[u] = "none" \/ sync'[u] # "accepted"
<1> USE DEF TypeOK
<1>1. CASE UNCHANGED row
  BY <1>1
<1>2. ASSUME NEW r \in Requests, NEW a \in Users, NEW v \in Users,
             \/ SuspendUser(r, a, v)
             \/ RequestReinstated(r, v)
             \/ BeginManualIdentityReconciliation(r, a, v)
      PROVE  sync'[u] # "accepted" \/ (v # u /\ sync'[u] = sync[u] /\ suspension'[u] = suspension[u])
  BY <1>2 DEF SuspendUser, SuspendUserAndAudit, RequestReinstated,
              BeginManualIdentityReconciliation, Advance, RequiredStates
<1>3. ASSUME NEW v \in Users, NEW state \in SyncStates, NEW now \in BOOLEAN,
             Advance(v, state, now),
             \/ state # "accepted" /\ UNCHANGED suspension
             \/ suspension' = [suspension EXCEPT ![v] = "none"]
      PROVE  suspension'[u] = "none" \/ sync'[u] # "accepted"
  BY <1>3 DEF Advance
<1>4. ASSUME NEW w \in Reconcilers, ClaimExpiredIdentityReconciliations(w)
      PROVE  suspension'[u] = "none" \/ sync'[u] # "accepted"
  BY <1>4 DEF ClaimExpiredIdentityReconciliations
<1>5. ASSUME NEW v \in Users, \/ CreateInitialSession(v) \/ RevokeSession(v)
                              \/ SuspensionExpires(v) \/ BackoffElapses(v)
      PROVE  suspension'[u] = "none" \/ sync'[u] # "accepted"
  BY <1>5 DEF CreateInitialSession, RevokeSession, SuspensionExpires, BackoffElapses
<1> QED
  BY <1>1, <1>2, <1>3, <1>4, <1>5 DEF RowStep, IntentCommitted, OutcomeCommitted

-----------------------------------------------------------------------------
(* Denial and continuity. *)

Standing == SuspensionDenies /\ SessionsFollowAccess

\* No step leaves a suspended user accepted or a denied one with a session.
LEMMA StandingStep ==
    TypeOK /\ AuthorizedIsDenied /\ Standing /\ [Next]_vars => Standing'
<1> SUFFICES ASSUME TypeOK, Standing, RowStep PROVE Standing'
  BY RowSteps
<1> USE DEF Standing, SuspensionDenies, SessionsFollowAccess, InGoodStanding,
            EffectivelySuspended
<1>1. CASE UNCHANGED row
  BY <1>1
<1>2. ASSUME NEW r \in Requests, NEW a \in Users, NEW u \in Users,
             SuspendUser(r, a, u)
      PROVE  Standing'
  BY <1>2 DEF SuspendUser, SuspendUserAndAudit, Advance, TypeOK
<1>3. ASSUME NEW r \in Requests, NEW u \in Users, RequestReinstated(r, u)
      PROVE  Standing'
  BY <1>3 DEF RequestReinstated, Advance, TypeOK
<1>4. ASSUME NEW r \in Requests, NEW a \in Users, NEW u \in Users,
             BeginManualIdentityReconciliation(r, a, u)
      PROVE  Standing'
  BY <1>4 DEF BeginManualIdentityReconciliation, Advance, TypeOK, RequiredStates
<1>5. ASSUME NEW u \in Users, NEW state \in SyncStates, NEW now \in BOOLEAN,
             sync[u] \in RequiredStates,
             Advance(u, state, now),
             \/ state # "accepted" /\ UNCHANGED suspension
             \/ suspension' = [suspension EXCEPT ![u] = "none"],
             UNCHANGED session
      PROVE  Standing'
  BY <1>5 DEF Advance, TypeOK, RequiredStates
<1>6. ASSUME NEW w \in Reconcilers, ClaimExpiredIdentityReconciliations(w)
      PROVE  Standing'
  <2>1. PICK batch \in SUBSET ExpiredCandidates :
          sync' = [u \in Users |-> IF u \in batch THEN "grant_required" ELSE sync[u]]
    BY <1>6 DEF ClaimExpiredIdentityReconciliations
  <2>2. UNCHANGED <<suspension, session>>
    BY <1>6 DEF ClaimExpiredIdentityReconciliations
  <2>3. \A u \in batch : sync[u] # "accepted"
    BY DEF ExpiredCandidates, RequiredStates
  <2> QED
    BY <2>1, <2>2, <2>3
<1>7. ASSUME NEW u \in Users, \/ CreateInitialSession(u) \/ RevokeSession(u)
                              \/ SuspensionExpires(u) \/ BackoffElapses(u)
      PROVE  Standing'
  BY <1>7 DEF CreateInitialSession, RevokeSession, SuspensionExpires, BackoffElapses,
              TypeOK
<1> QED
  BY <1>1, <1>2, <1>3, <1>4, <1>5, <1>6, <1>7
  DEF RowStep, IntentCommitted, OutcomeCommitted

\* A task whose target is authorized was that task before, or has just been.
LEMMA BeginOnlyAuthorized ==
    ASSUME TypeOK, [Next]_vars, NEW v \in Workers, task'[v].phase = "begin",
           ~(\E r \in Requests, a, u \in Users : AuthorizeReinstatement(r, a, u))
    PROVE  task'[v] = task[v]
<1>1. ASSUME NEW w \in Workers, NEW t, t.phase # "begin", task' = [task EXCEPT ![w] = t]
      PROVE  task'[v] = task[v]
  BY <1>1 DEF TypeOK
<1>2. ASSUME NEW w \in Workers, Ends(w)
      PROVE  task'[v] = task[v]
  BY <1>2, <1>1 DEF Ends, Idle
<1>3. ASSUME NEW r \in Requests, NEW a \in Users, NEW u \in Users,
             SuspendUser(r, a, u) \/ BeginManualIdentityReconciliation(r, a, u)
      PROVE  task'[v] = task[v]
  BY <1>3, <1>1 DEF SuspendUser, BeginManualIdentityReconciliation, Begin, NewTask, Workers
<1>4. ASSUME NEW r \in Requests, BeginIdentityReinstatement(r)
      PROVE  task'[v] = task[v]
  <2>1. r \in Workers /\ task[r] \in ActiveTasks
    BY <1>4, PhaseType DEF BeginIdentityReinstatement, Workers
  <2> QED
    BY <1>4, <2>1, <1>2 DEF BeginIdentityReinstatement, Conflict, TypeOK, ActiveTasks
<1>5. ASSUME NEW r \in Requests, LoadSuspendedIdentityTarget(r) \/ AuthorizeCompletion(r)
      PROVE  task'[v] = task[v]
  <2>1. r \in Workers /\ task[r] \in ActiveTasks
    BY <1>5, PhaseType DEF LoadSuspendedIdentityTarget, AuthorizeCompletion, Workers
  <2> QED
    BY <1>5, <2>1, <1>2 DEF LoadSuspendedIdentityTarget, AuthorizeCompletion, Conflict,
                            TypeOK, ActiveTasks
<1>6. ASSUME NEW w \in Workers, RemoteStep(w) \/ RemoteFailure(w)
      PROVE  task'[v] = task[v]
  <2>1. task[w] \in ActiveTasks /\ task[w].phase = "remote"
    BY <1>6, PhaseType DEF RemoteStep, RemoteCall, RemoteVerify, RemoteFailure
  <2> QED
    BY <1>6, <2>1 DEF RemoteStep, RemoteCall, RemoteVerify, RemoteFailure, TypeOK,
                      ActiveTasks
<1>7. ASSUME NEW r \in Requests, \/ RecordIdentityReconciliationFailure(r)
                                 \/ CompleteIdentityRemoval(r)
                                 \/ CompleteIdentityReinstatement(r)
      PROVE  task'[v] = task[v]
  BY <1>7, <1>2 DEF RecordIdentityReconciliationFailure, CompleteIdentityRemoval,
                    CompleteIdentityReinstatement, Conflict, Workers
<1>8. ASSUME NEW w \in Reconcilers, \/ RecordExpiredIdentityReconciliationFailure(w)
                                    \/ CompleteExpiredIdentityReconciliation(w)
      PROVE  task'[v] = task[v]
  BY <1>8, <1>2 DEF RecordExpiredIdentityReconciliationFailure,
                    CompleteExpiredIdentityReconciliation, Superseded, Workers
<1>9. ASSUME NEW w \in Reconcilers, HandleClaim(w)
      PROVE  task'[v] = task[v]
  BY <1>9, <1>1 DEF HandleClaim, NewTask, Workers
<1>10. CASE UNCHANGED task
  BY <1>10
<1>11. ASSUME NEW lost \in SUBSET Workers, Interrupt(lost)
       PROVE  task'[v] = task[v]
  BY <1>11 DEF Interrupt, Idle
<1> QED
  BY <1>3, <1>4, <1>5, <1>6, <1>7, <1>8, <1>9, <1>10, <1>11
  DEF Next, BeginRequest, RequestStep, ReconcilerStep, Workers, CreateInitialSession,
      RevokeSession, SuspensionExpires, BackoffElapses, ClaimExpiredIdentityReconciliations

\* A reinstatement is authorized against a suspension in force.
LEMMA AuthorizedStep ==
    TypeOK /\ AuthorizedIsDenied /\ Standing /\ [Next]_vars => AuthorizedIsDenied'
<1> SUFFICES ASSUME TypeOK, TypeOK', AuthorizedIsDenied, Standing, [Next]_vars,
                    NEW w \in Workers, task'[w].phase = "begin"
             PROVE  /\ task'[w].origin = "reinstate" /\ task'[w].intent = "grant_required"
                    /\ \/ suspension'[task'[w].user] = "none"
                       \/ sync'[task'[w].user] # "accepted"
  BY TypeStep DEF AuthorizedIsDenied
<1>1. CASE task'[w] = task[w]
  <2>1. task[w].user \in Users
    BY <1>1, PhaseType DEF ActiveTasks
  <2>2. RowStep
    BY RowSteps
  <2> QED
    BY <1>1, <2>1, <2>2, DenialKept DEF AuthorizedIsDenied
<1>2. CASE \E r \in Requests, a, u \in Users : AuthorizeReinstatement(r, a, u)
  <2>1. PICK r \in Requests, a \in Users, u \in Users : AuthorizeReinstatement(r, a, u)
    BY <1>2
  <2>2. UNCHANGED row /\ suspension[u] # "none" /\ sync[u] # "accepted"
    BY <2>1 DEF AuthorizeReinstatement, EffectivelySuspended, Standing, SuspensionDenies
  <2>3. CASE w = r
    <3>1. /\ task'[w].user = u
          /\ task'[w].origin = "reinstate"
          /\ task'[w].intent = "grant_required"
      BY <2>1, <2>3 DEF AuthorizeReinstatement, Begin, NewTask, TypeOK
    <3> QED
      BY <2>2, <3>1
  <2>4. CASE w # r
    BY <2>1, <2>4, <1>1 DEF AuthorizeReinstatement, Begin, TypeOK
  <2> QED
    BY <2>3, <2>4
<1>3. CASE ~(\E r \in Requests, a, u \in Users : AuthorizeReinstatement(r, a, u))
  <2>1. task'[w] = task[w]
    BY <1>3, BeginOnlyAuthorized
  <2> QED
    BY <2>1, <1>1
<1> QED
  BY <1>2, <1>3

\* The administrators who were active stay so, but for the user suspended.
LEMMA ContinuityStep ==
    TypeOK /\ AuthorizedIsDenied /\ AdministratorContinuity /\ [Next]_vars =>
      AdministratorContinuity'
<1> SUFFICES ASSUME TypeOK, AdministratorContinuity, RowStep
             PROVE  AdministratorContinuity'
  BY RowSteps
<1> USE DEF AdministratorContinuity
<1> DEFINE Kept == \A u \in Users : InGoodStanding(u) => InGoodStanding(u)'
<1>0. ASSUME Kept PROVE AdministratorContinuity'
  BY <1>0, UsersAssumption DEF ActiveAdministrators
<1>1. CASE UNCHANGED row
  BY <1>1, <1>0 DEF InGoodStanding, EffectivelySuspended
<1>2. ASSUME NEW r \in Requests, NEW a \in Users, NEW u \in Users,
             SuspendUser(r, a, u)
      PROVE  AdministratorContinuity'
  <2>1. \A v \in Users \ {u} : InGoodStanding(v) => InGoodStanding(v)'
    BY <1>2 DEF SuspendUser, SuspendUserAndAudit, Advance, TypeOK, InGoodStanding,
                EffectivelySuspended
  <2>2. ActiveAdministrators \ {u} \subseteq ActiveAdministrators'
    BY <2>1, UsersAssumption DEF ActiveAdministrators
  <2>3. ActiveAdministrators \ {u} # {}
    <3>1. CASE u \in Administrators
      <4>1. Cardinality(ActiveAdministrators) > 1
        BY <1>2, <3>1 DEF SuspendUser
      <4>2. CASE ActiveAdministrators = {u}
        BY <4>1, <4>2, FS_Singleton
      <4> QED
        BY <4>2
    <3>2. CASE u \notin Administrators
      BY <3>2 DEF ActiveAdministrators
    <3> QED
      BY <3>1, <3>2
  <2> QED
    BY <2>2, <2>3
<1>3. ASSUME NEW r \in Requests, NEW a \in Users, NEW u \in Users,
             RequestReinstated(r, u) \/ BeginManualIdentityReconciliation(r, a, u)
      PROVE  AdministratorContinuity'
  <2>1. ~InGoodStanding(u)
    BY <1>3 DEF RequestReinstated, BeginManualIdentityReconciliation, InGoodStanding
  <2>2. \A v \in Users \ {u} : sync'[v] = sync[v] /\ suspension'[v] = suspension[v]
    BY <1>3 DEF RequestReinstated, BeginManualIdentityReconciliation, Advance, TypeOK
  <2> QED
    BY <2>1, <2>2, <1>0 DEF InGoodStanding, EffectivelySuspended
<1>4. ASSUME NEW u \in Users, NEW state \in SyncStates, NEW now \in BOOLEAN,
             sync[u] \in RequiredStates,
             Advance(u, state, now),
             \/ state # "accepted" /\ UNCHANGED suspension
             \/ suspension' = [suspension EXCEPT ![u] = "none"]
      PROVE  AdministratorContinuity'
  <2>1. ~InGoodStanding(u)
    BY <1>4 DEF InGoodStanding, RequiredStates
  <2>2. \A v \in Users \ {u} : sync'[v] = sync[v] /\ suspension'[v] = suspension[v]
    BY <1>4 DEF Advance, TypeOK
  <2> QED
    BY <2>1, <2>2, <1>0 DEF InGoodStanding, EffectivelySuspended
<1>5. ASSUME NEW w \in Reconcilers, ClaimExpiredIdentityReconciliations(w)
      PROVE  AdministratorContinuity'
  <2>1. PICK batch \in SUBSET ExpiredCandidates :
          sync' = [u \in Users |-> IF u \in batch THEN "grant_required" ELSE sync[u]]
    BY <1>5 DEF ClaimExpiredIdentityReconciliations
  <2>2. UNCHANGED suspension
    BY <1>5 DEF ClaimExpiredIdentityReconciliations
  <2>3. \A u \in batch : sync[u] # "accepted"
    BY DEF ExpiredCandidates, RequiredStates
  <2> QED
    BY <2>1, <2>2, <2>3, <1>0 DEF InGoodStanding, EffectivelySuspended
<1>6. ASSUME NEW u \in Users, \/ CreateInitialSession(u) \/ RevokeSession(u)
                              \/ SuspensionExpires(u) \/ BackoffElapses(u)
      PROVE  AdministratorContinuity'
  <2>1. UNCHANGED sync
    BY <1>6 DEF CreateInitialSession, RevokeSession, SuspensionExpires, BackoffElapses
  <2>2. \A v \in Users : suspension'[v] = suspension[v] \/ suspension'[v] = "expired"
    BY <1>6 DEF CreateInitialSession, RevokeSession, SuspensionExpires, BackoffElapses, TypeOK
  <2> QED
    BY <2>1, <2>2, <1>0 DEF InGoodStanding, EffectivelySuspended
<1> QED
  BY <1>1, <1>2, <1>3, <1>4, <1>5, <1>6 DEF RowStep, IntentCommitted, OutcomeCommitted

-----------------------------------------------------------------------------
(* Ownership of the row. *)

\* A row either takes a new revision or keeps what its intent depends on.
RowMoves(u) ==
    \/ revision'[u] > revision[u]
    \/ /\ revision'[u] = revision[u]
       /\ sync'[u] = sync[u]
       /\ \/ suspension'[u] = suspension[u]
          \/ suspension[u] # "none" /\ suspension'[u] = "expired"

LEMMA RowsMove ==
    TypeOK /\ AuthorizedIsDenied /\ [Next]_vars => \A u \in Users : RowMoves(u)
<1> SUFFICES ASSUME TypeOK, RowStep, NEW v \in Users PROVE RowMoves(v)
  BY RowSteps
<1> USE DEF RowMoves, TypeOK
<1>1. CASE UNCHANGED row
  BY <1>1
<1>2. ASSUME NEW r \in Requests, NEW a \in Users, NEW u \in Users,
             \/ SuspendUser(r, a, u)
             \/ RequestReinstated(r, u)
             \/ BeginManualIdentityReconciliation(r, a, u)
      PROVE  RowMoves(v)
  <2>1. /\ revision' = [revision EXCEPT ![u] = @ + 1]
        /\ v # u => sync'[v] = sync[v] /\ suspension'[v] = suspension[v]
    BY <1>2 DEF SuspendUser, SuspendUserAndAudit, RequestReinstated,
                BeginManualIdentityReconciliation, Advance
  <2> QED
    BY <2>1
<1>3. ASSUME NEW u \in Users, NEW state \in SyncStates, NEW now \in BOOLEAN,
             Advance(u, state, now),
             \/ UNCHANGED suspension
             \/ suspension' = [suspension EXCEPT ![u] = "none"]
      PROVE  RowMoves(v)
  BY <1>3 DEF Advance
<1>4. ASSUME NEW w \in Reconcilers, ClaimExpiredIdentityReconciliations(w)
      PROVE  RowMoves(v)
  <2>1. PICK batch \in SUBSET ExpiredCandidates :
          /\ sync' = [u \in Users |-> IF u \in batch THEN "grant_required" ELSE sync[u]]
          /\ revision' = [u \in Users |-> IF u \in batch THEN revision[u] + 1 ELSE revision[u]]
    BY <1>4 DEF ClaimExpiredIdentityReconciliations
  <2>2. UNCHANGED suspension
    BY <1>4 DEF ClaimExpiredIdentityReconciliations
  <2> QED
    BY <2>1, <2>2
<1>5. ASSUME NEW u \in Users, \/ CreateInitialSession(u) \/ RevokeSession(u)
                              \/ SuspensionExpires(u) \/ BackoffElapses(u)
      PROVE  RowMoves(v)
  BY <1>5 DEF CreateInitialSession, RevokeSession, SuspensionExpires, BackoffElapses
<1> QED
  BY <1>1, <1>2, <1>3, <1>4, <1>5 DEF RowStep, IntentCommitted, OutcomeCommitted

\* A worker's task afterwards: none, one without an intent, the same intent as
\* before, or a new one that the row or a claim of the worker carries.
TaskMoves(w) ==
    \/ ~Running(w)'
    \/ task'[w].revision = 0
    \/ /\ Running(w)
       /\ task'[w].user = task[w].user
       /\ task'[w].intent = task[w].intent
       /\ task'[w].origin = task[w].origin
       /\ task'[w].revision = task[w].revision
    \/ /\ task'[w].user \in Users
       /\ task'[w].origin # "expiry"
       /\ task'[w].revision = revision'[task'[w].user]
       /\ task'[w].intent = sync'[task'[w].user]
       /\ suspension'[task'[w].user] # "none"
    \/ /\ w \in Reconcilers
       /\ task'[w].intent = "grant_required"
       /\ \E c \in claims[w] : task'[w].user = c.user /\ task'[w].revision = c.revision

\* Whatever does not start a task ends it or leaves its intent alone.
LEMMA TasksMove ==
    TypeOK /\ AuthorizedIsDenied /\ [Next]_vars => \A w \in Workers : TaskMoves(w)
<1> SUFFICES ASSUME TypeOK, AuthorizedIsDenied, [Next]_vars, NEW v \in Workers PROVE TaskMoves(v)
  OBVIOUS
<1> USE DEF TaskMoves, Running
<1>0. ASSUME NEW w \in Workers, Ends(w)
      PROVE  TaskMoves(v)
  BY <1>0 DEF Ends, TypeOK
<1>1. ASSUME NEW r \in Requests, NEW t,
             NEW u \in Users, t.user = u, t.origin # "expiry",
             t.revision = revision'[u], t.intent = sync'[u], suspension'[u] # "none",
             Begin(r, t)
      PROVE  TaskMoves(v)
  BY <1>1 DEF Begin, TypeOK
<1>2. ASSUME NEW r \in Requests, NEW a \in Users, NEW u \in Users, SuspendUser(r, a, u)
      PROVE  TaskMoves(v)
  <2>1. /\ sync'[u] = "removal_required"
        /\ revision'[u] = revision[u] + 1
        /\ suspension'[u] # "none"
    BY <1>2 DEF SuspendUser, SuspendUserAndAudit, Advance, TypeOK
  <2> QED
    BY <1>2, <2>1, <1>1 DEF SuspendUser, NewTask
<1>3. ASSUME NEW r \in Requests, NEW a \in Users, NEW u \in Users,
             AuthorizeReinstatement(r, a, u)
      PROVE  TaskMoves(v)
  BY <1>3 DEF AuthorizeReinstatement, Begin, NewTask, TypeOK, Workers
<1>3a. ASSUME NEW r \in Requests, BeginIdentityReinstatement(r)
       PROVE  TaskMoves(v)
  <2> DEFINE u == task[r].user
  <2>1. r \in Workers /\ task[r] \in ActiveTasks
    BY <1>3a, PhaseType DEF BeginIdentityReinstatement, Workers
  <2>2. CASE \E p, m : Conflict(r, p, m)
    BY <2>1, <2>2, <1>0 DEF Conflict
  <2>3. CASE /\ task[r].phase = "begin"
             /\ suspension[u] # "none"
             /\ Advance(u, "grant_required", TRUE)
             /\ task' = [task EXCEPT ![r].phase = "remote", ![r].revision = revision[u] + 1]
             /\ UNCHANGED <<suspension, session, groups, claims, bounds>>
    <3>1. u \in Users
      BY <2>1 DEF ActiveTasks
    <3>2. /\ sync'[u] = "grant_required"
          /\ revision'[u] = revision[u] + 1
          /\ suspension'[u] # "none"
      BY <2>3, <3>1 DEF Advance, TypeOK
    <3>3. CASE v # r
      BY <2>3, <3>3 DEF TypeOK
    <3>4. CASE v = r
      <4>1. /\ task'[r].user = u
            /\ task'[r].revision = revision[u] + 1
            /\ task'[r].intent = task[r].intent
            /\ task'[r].origin = task[r].origin
        BY <2>1, <2>3 DEF TypeOK, ActiveTasks
      <4>2. task[r].intent = "grant_required" /\ task[r].origin = "reinstate"
        BY <2>1, <2>3 DEF AuthorizedIsDenied
      <4> QED
        BY <3>1, <3>2, <3>4, <4>1, <4>2
    <3> QED
      BY <3>3, <3>4
  <2> QED
    BY <1>3a, <2>2, <2>3 DEF BeginIdentityReinstatement
<1>4. ASSUME NEW r \in Requests, NEW a \in Users, NEW u \in Users,
             BeginManualIdentityReconciliation(r, a, u)
      PROVE  TaskMoves(v)
  <2>1. /\ sync'[u] = sync[u]
        /\ revision'[u] = revision[u] + 1
        /\ suspension'[u] # "none"
    BY <1>4 DEF BeginManualIdentityReconciliation, EffectivelySuspended, Advance, TypeOK
  <2> QED
    BY <1>4, <2>1, <1>1 DEF BeginManualIdentityReconciliation, NewTask
<1>5. ASSUME NEW r \in Requests, LoadSuspendedIdentityTarget(r)
      PROVE  TaskMoves(v)
  <2>1. r \in Workers /\ task[r] \in ActiveTasks
    BY <1>5, PhaseType DEF LoadSuspendedIdentityTarget, Workers
  <2> QED
    BY <1>5, <2>1 DEF LoadSuspendedIdentityTarget, Ends, TypeOK, ActiveTasks, Idle
<1>6. ASSUME NEW w \in Workers, RemoteStep(w) \/ RemoteFailure(w)
      PROVE  TaskMoves(v)
  <2>1. task[w] \in ActiveTasks
    BY <1>6, PhaseType DEF RemoteStep, RemoteCall, RemoteVerify, RemoteFailure
  <2> QED
    BY <1>6, <2>1 DEF RemoteStep, RemoteCall, RemoteVerify, RemoteFailure, TypeOK,
                      ActiveTasks, Idle
<1>8. ASSUME NEW r \in Requests, \/ RecordIdentityReconciliationFailure(r)
                                 \/ CompleteIdentityRemoval(r)
                                 \/ CompleteIdentityReinstatement(r)
      PROVE  TaskMoves(v)
  BY <1>8, <1>0 DEF RecordIdentityReconciliationFailure, CompleteIdentityRemoval,
                    CompleteIdentityReinstatement, Conflict, Workers
<1>8a. ASSUME NEW r \in Requests, AuthorizeCompletion(r)
       PROVE  TaskMoves(v)
  <2>1. r \in Workers /\ task[r] \in ActiveTasks
    BY <1>8a, PhaseType DEF AuthorizeCompletion, Workers
  <2> QED
    BY <1>8a, <2>1, <1>0 DEF AuthorizeCompletion, Conflict, TypeOK, ActiveTasks, Idle
<1>9. ASSUME NEW w \in Reconcilers, \/ RecordExpiredIdentityReconciliationFailure(w)
                                    \/ CompleteExpiredIdentityReconciliation(w)
      PROVE  TaskMoves(v)
  BY <1>9, <1>0 DEF RecordExpiredIdentityReconciliationFailure,
                    CompleteExpiredIdentityReconciliation, Superseded, Workers
<1>10. ASSUME NEW w \in Reconcilers, HandleClaim(w)
       PROVE  TaskMoves(v)
  <2>1. PICK c \in claims[w] :
          task' = [task EXCEPT ![w] =
                     [NewTask("expiry", "grant_required", c.user, w)
                        EXCEPT !.revision = c.revision]]
    BY <1>10 DEF HandleClaim
  <2>2. CASE v = w
    <3>1. /\ task'[w].user = c.user
          /\ task'[w].revision = c.revision
          /\ task'[w].intent = "grant_required"
      BY <2>1 DEF NewTask, TypeOK, Workers
    <3> QED
      BY <2>2, <3>1
  <2>3. CASE v # w
    BY <2>1, <2>3 DEF TypeOK
  <2> QED
    BY <2>2, <2>3
<1>11. CASE UNCHANGED task
  BY <1>11
<1>12. ASSUME NEW lost \in SUBSET Workers, Interrupt(lost)
       PROVE  TaskMoves(v)
  BY <1>12, SMTT(30) DEF Interrupt
<1> QED
  BY <1>2, <1>3, <1>3a, <1>4, <1>5, <1>6, <1>8, <1>8a, <1>9, <1>10, <1>11, <1>12
  DEF Next, BeginRequest, RequestStep, ReconcilerStep, Workers, CreateInitialSession,
      RevokeSession, SuspensionExpires, BackoffElapses, ClaimExpiredIdentityReconciliations

\* A claim afterwards was a claim before, or the row carries it.
LEMMA ClaimsMove ==
    TypeOK /\ [Next]_vars =>
      \A w \in Reconcilers : \A c \in claims'[w] :
        \/ c \in claims[w]
        \/ /\ c.user \in Users
           /\ c.revision = revision'[c.user]
           /\ sync'[c.user] = "grant_required"
           /\ suspension'[c.user] = "expired"
<1> SUFFICES ASSUME TypeOK, [Next]_vars, NEW v \in Reconcilers, NEW c \in claims'[v]
             PROVE  \/ c \in claims[v]
                    \/ /\ c.user \in Users
                       /\ c.revision = revision'[c.user]
                       /\ sync'[c.user] = "grant_required"
                       /\ suspension'[c.user] = "expired"
  OBVIOUS
<1>1. ASSUME NEW w \in Reconcilers, ClaimExpiredIdentityReconciliations(w)
      PROVE  \/ c \in claims[v]
             \/ /\ c.user \in Users
                /\ c.revision = revision'[c.user]
                /\ sync'[c.user] = "grant_required"
                /\ suspension'[c.user] = "expired"
  <2>1. PICK batch \in SUBSET ExpiredCandidates :
          /\ sync' = [u \in Users |-> IF u \in batch THEN "grant_required" ELSE sync[u]]
          /\ revision' = [u \in Users |-> IF u \in batch THEN revision[u] + 1 ELSE revision[u]]
          /\ claims' = [claims EXCEPT ![w] =
                          {[user |-> u, revision |-> revision[u] + 1] : u \in batch}]
    BY <1>1 DEF ClaimExpiredIdentityReconciliations
  <2>2. CASE v # w
    BY <2>1, <2>2 DEF TypeOK
  <2>3. CASE v = w
    <3>1. PICK u \in batch : c = [user |-> u, revision |-> revision[u] + 1]
      BY <2>1, <2>3 DEF TypeOK
    <3>2. u \in Users /\ suspension[u] = "expired"
      BY DEF ExpiredCandidates
    <3>3. UNCHANGED suspension
      BY <1>1 DEF ClaimExpiredIdentityReconciliations
    <3>4. /\ c.user = u
          /\ c.revision = revision[u] + 1
      BY <3>1
    <3>5. revision'[u] = revision[u] + 1 /\ sync'[u] = "grant_required"
      BY <2>1, <3>2
    <3> QED
      BY <3>2, <3>3, <3>4, <3>5
  <2> QED
    BY <2>2, <2>3
<1>2. ASSUME NEW w \in Reconcilers,
             \/ HandleClaim(w)
             \/ RecordExpiredIdentityReconciliationFailure(w)
             \/ CompleteExpiredIdentityReconciliation(w)
      PROVE  c \in claims[v]
  BY <1>2 DEF HandleClaim, RecordExpiredIdentityReconciliationFailure,
              CompleteExpiredIdentityReconciliation, Superseded, TypeOK
<1>3. ASSUME NEW lost \in SUBSET Workers, Interrupt(lost)
      PROVE  c \in claims[v]
  BY <1>3 DEF Interrupt
<1>4. CASE UNCHANGED claims
  BY <1>4
<1> QED
  BY <1>1, <1>2, <1>3, <1>4, ZenonT(40)
  DEF Next, BeginRequest, SuspendUser, AuthorizeReinstatement,
      BeginManualIdentityReconciliation, Begin, RequestStep, BeginIdentityReinstatement,
      LoadSuspendedIdentityTarget, AuthorizeCompletion,
      RemoteStep, RemoteCall, RemoteVerify, RemoteFailure,
      RecordIdentityReconciliationFailure, CompleteIdentityRemoval,
      CompleteIdentityReinstatement, Conflict, ReconcilerStep, CreateInitialSession,
      RevokeSession, SuspensionExpires, BackoffElapses

\* An intent whose revision the row no longer carries never owns it again.
LEMMA OwnershipStep ==
    TypeOK /\ AuthorizedIsDenied /\ IntentOwnsRow /\ [Next]_vars => IntentOwnsRow'
<1> SUFFICES ASSUME TypeOK, TypeOK', AuthorizedIsDenied, IntentOwnsRow, [Next]_vars
             PROVE  IntentOwnsRow'
  BY TypeStep
<1>1. ASSUME NEW w \in Workers, Running(w)'
      PROVE  TaskOwns(task[w])'
  <2> DEFINE new == task'[w]
  <2>1. new \in ActiveTasks
    BY <1>1 DEF TypeOK, Running
  <2>2. new.user \in Users /\ new.revision \in Nat
    BY <2>1 DEF ActiveTasks
  <2>3. RowMoves(new.user) /\ TaskMoves(w)
    BY <2>2, RowsMove, TasksMove
  <2>4. revision[new.user] \in Nat /\ revision'[new.user] \in Nat
    BY <2>2, BoundsAssumption DEF TypeOK
  <2>0. CASE new.revision = 0
    BY <2>2, <2>0, BoundsAssumption DEF TaskOwns, TypeOK
  <2>5. CASE /\ Running(w)
             /\ new.user = task[w].user
             /\ new.intent = task[w].intent
             /\ new.origin = task[w].origin
             /\ new.revision = task[w].revision
    <3>1. TaskOwns(task[w])
      BY <2>5 DEF IntentOwnsRow
    <3> QED
      BY <2>2, <2>3, <2>4, <2>5, <3>1 DEF TaskOwns, RowMoves
  <2>6. CASE /\ new.origin # "expiry"
             /\ new.revision = revision'[new.user]
             /\ new.intent = sync'[new.user]
             /\ suspension'[new.user] # "none"
    BY <2>2, <2>4, <2>6 DEF TaskOwns
  <2>7. CASE /\ w \in Reconcilers
             /\ new.intent = "grant_required"
             /\ \E c \in claims[w] : new.user = c.user /\ new.revision = c.revision
    <3>1. PICK c \in claims[w] : new.user = c.user /\ new.revision = c.revision
      BY <2>7
    <3>2. ClaimOwns(c)
      BY <2>7 DEF IntentOwnsRow
    <3> QED
      BY <2>2, <2>3, <2>4, <2>7, <3>1, <3>2 DEF ClaimOwns, TaskOwns, RowMoves
  <2> QED
    BY <1>1, <2>0, <2>3, <2>5, <2>6, <2>7 DEF TaskMoves
<1>2. ASSUME NEW w \in Reconcilers, NEW c \in claims'[w]
      PROVE  /\ c.revision <= revision'[c.user]
             /\ c.revision = revision'[c.user] =>
                  sync'[c.user] = "grant_required" /\ suspension'[c.user] = "expired"
  <2>1. c.user \in Users /\ c.revision \in Nat
    BY DEF TypeOK
  <2>2. RowMoves(c.user)
    BY <2>1, RowsMove
  <2>3. revision[c.user] \in Nat /\ revision'[c.user] \in Nat
    BY <2>1, BoundsAssumption DEF TypeOK
  <2>4. CASE c \in claims[w]
    <3>1. ClaimOwns(c)
      BY <2>4 DEF IntentOwnsRow
    <3> QED
      BY <2>1, <2>2, <2>3, <3>1 DEF ClaimOwns, RowMoves
  <2>5. CASE /\ c.revision = revision'[c.user]
             /\ sync'[c.user] = "grant_required"
             /\ suspension'[c.user] = "expired"
    BY <2>1, <2>3, <2>5
  <2> QED
    BY <2>4, <2>5, ClaimsMove
<1> QED
  BY <1>1, <1>2 DEF IntentOwnsRow, ClaimOwns

-----------------------------------------------------------------------------
(* Two holders never hold the same revision of one user. *)

\* Only a request that has not committed its intent is without a revision.
Numbered ==
    /\ \A w \in Workers : Running(w) => (task[w].phase = "begin" <=> task[w].revision = 0)
    /\ \A w \in Reconcilers : \A c \in claims[w] : c.revision # 0

\* The worker ends, has no revision yet, or holds what it held.
KeepsIntent(w) ==
    \/ task'[w] = Idle
    \/ task'[w].phase = "begin" /\ task'[w].revision = 0
    \/ /\ Running(w)
       /\ task'[w].user = task[w].user /\ task'[w].revision = task[w].revision
       /\ task'[w].phase = "begin" <=> task[w].phase = "begin"

\* What a step does to all the holders at once: none is new; one worker gets
\* the next revision of a user; one reconciler claims the next revision of
\* several; or one takes up a claim.
NoneIsNew == /\ \A w \in Workers : KeepsIntent(w)
             /\ \A w \in Reconcilers : claims'[w] \subseteq claims[w]

WorkerIsNew(r) ==
    /\ task'[r].phase # "begin" /\ task'[r].user \in Users
    /\ task'[r].revision = revision[task'[r].user] + 1
    /\ \A w \in Workers \ {r} : task'[w] = task[w]
    /\ UNCHANGED claims

ClaimsAreNew(w) ==
    /\ UNCHANGED task
    /\ \A v \in Reconcilers \ {w} : claims'[v] = claims[v]
    /\ \A c \in claims'[w] : c.user \in Users /\ c.revision = revision[c.user] + 1

ClaimIsTaken(w, c) ==
    /\ task'[w].phase # "begin" /\ task'[w].user = c.user /\ task'[w].revision = c.revision
    /\ \A v \in Workers \ {w} : task'[v] = task[v]
    /\ claims'[w] = claims[w] \ {c}
    /\ \A v \in Reconcilers \ {w} : claims'[v] = claims[v]

HoldersMove ==
    \/ NoneIsNew
    \/ \E r \in Workers : WorkerIsNew(r)
    \/ \E w \in Reconcilers : ClaimsAreNew(w)
    \/ \E w \in Reconcilers : \E c \in claims[w] : ClaimIsTaken(w, c)

\* Every step is one of the four.
LEMMA HoldersSteps ==
    ASSUME TypeOK, Numbered, [Next]_vars
    PROVE  HoldersMove
<1> USE DEF Running
<1>1. ASSUME NEW w \in Workers, Ends(w),
             \/ UNCHANGED claims
             \/ w \in Reconcilers /\ claims' = [claims EXCEPT ![w] = {}]
      PROVE  HoldersMove
  BY <1>1 DEF Ends, TypeOK, HoldersMove, NoneIsNew, KeepsIntent
<1>2. ASSUME NEW w \in Workers, NEW x \in ActiveTasks, task' = [task EXCEPT ![w] = x],
             Running(w), x.user = task[w].user, x.revision = task[w].revision,
             x.phase = "begin" <=> task[w].phase = "begin", UNCHANGED claims
      PROVE  HoldersMove
  BY <1>2 DEF TypeOK, HoldersMove, NoneIsNew, KeepsIntent
<1>3. ASSUME NEW r \in Requests, NEW u \in Users, NEW x, Begin(r, x),
             x.phase # "begin", x.user = u, x.revision = revision[u] + 1
      PROVE  HoldersMove
  <2>1. r \in Workers
    BY DEF Workers
  <2>2. task'[r] = x
    BY <1>3, <2>1 DEF Begin, TypeOK
  <2>3. \A w \in Workers \ {r} : task'[w] = task[w]
    BY <1>3 DEF Begin, TypeOK
  <2> QED
    BY <1>3, <2>1, <2>2, <2>3 DEF Begin, HoldersMove, WorkerIsNew
<1>4. ASSUME NEW r \in Requests, NEW a \in Users, NEW u \in Users, SuspendUser(r, a, u)
      PROVE  HoldersMove
  BY <1>3, <1>4 DEF SuspendUser, NewTask
<1>5. ASSUME NEW r \in Requests, NEW a \in Users, NEW u \in Users,
             BeginManualIdentityReconciliation(r, a, u)
      PROVE  HoldersMove
  BY <1>3, <1>5 DEF BeginManualIdentityReconciliation, NewTask
<1>6. ASSUME NEW r \in Requests, NEW a \in Users, NEW u \in Users,
             AuthorizeReinstatement(r, a, u)
      PROVE  HoldersMove
  <2> DEFINE x == [NewTask("reinstate", "grant_required", u, a)
                     EXCEPT !.phase = "begin", !.revision = 0]
  <2>1. x.phase = "begin" /\ x.revision = 0
    BY DEF NewTask
  <2>2. task' = [task EXCEPT ![r] = x] /\ UNCHANGED claims
    BY <1>6 DEF AuthorizeReinstatement, Begin
  <2>3. task[r] = Idle
    BY <1>6 DEF AuthorizeReinstatement, Begin
  <2> HIDE DEF x
  <2>4. ASSUME NEW w \in Workers PROVE KeepsIntent(w)
    BY <2>1, <2>2 DEF TypeOK, KeepsIntent
  <2> QED
    BY <2>2, <2>4 DEF HoldersMove, NoneIsNew
<1>7. ASSUME NEW r \in Requests, BeginIdentityReinstatement(r)
      PROVE  HoldersMove
  <2>1. r \in Workers /\ task[r] \in ActiveTasks
    BY <1>7, PhaseType DEF BeginIdentityReinstatement, Workers
  <2>2. CASE \E p, m : Conflict(r, p, m)
    BY <1>1, <2>1, <2>2 DEF Conflict
  <2>3. CASE /\ task' = [task EXCEPT ![r].phase = "remote",
                                     ![r].revision = revision[task[r].user] + 1]
             /\ UNCHANGED claims
    <3>1. task[r].user \in Users
      BY <2>1 DEF ActiveTasks
    <3>2. /\ task'[r].phase = "remote" /\ task'[r].user = task[r].user
          /\ task'[r].revision = revision[task[r].user] + 1
      BY <2>1, <2>3 DEF TypeOK, ActiveTasks
    <3>3. \A w \in Workers \ {r} : task'[w] = task[w]
      BY <2>3 DEF TypeOK
    <3> QED
      BY <2>1, <2>3, <3>1, <3>2, <3>3 DEF HoldersMove, WorkerIsNew
  <2> QED
    BY <1>7, <2>2, <2>3 DEF BeginIdentityReinstatement
<1>8. ASSUME NEW w \in Workers, NEW p \in {"remote", "record", "complete", "commit"},
             task[w] \in ActiveTasks, task[w].phase # "begin",
             task' = [task EXCEPT ![w].phase = p], UNCHANGED claims
      PROVE  HoldersMove
  <2> DEFINE x == [task[w] EXCEPT !.phase = p]
  <2>1. /\ x \in ActiveTasks /\ x.user = task[w].user /\ x.revision = task[w].revision
        /\ x.phase = p
    BY <1>8 DEF ActiveTasks
  <2>2. task' = [task EXCEPT ![w] = x] /\ Running(w)
    BY <1>8 DEF TypeOK, ActiveTasks, Idle
  <2> HIDE DEF x
  <2> QED
    BY <1>2, <1>8, <2>1, <2>2
<1>9. ASSUME NEW w \in Workers,
             \/ RemoteVerify(w) \/ RemoteFailure(w)
             \/ w \in Requests /\ (LoadSuspendedIdentityTarget(w) \/ AuthorizeCompletion(w))
      PROVE  HoldersMove
  <2>1. task[w] \in ActiveTasks /\ task[w].phase # "begin"
    BY <1>9, PhaseType DEF RemoteVerify, RemoteFailure, LoadSuspendedIdentityTarget,
                           AuthorizeCompletion
  <2> QED
    BY <1>1, <1>8, <1>9, <2>1 DEF RemoteVerify, RemoteFailure, LoadSuspendedIdentityTarget,
                                  AuthorizeCompletion, Conflict
<1>10. ASSUME NEW w \in Workers, RemoteCall(w)
       PROVE  HoldersMove
  <2> DEFINE x == [task[w] EXCEPT !.step = @ + 1]
  <2>1. task[w] \in ActiveTasks
    BY <1>10, PhaseType DEF RemoteCall
  <2>2. /\ x \in ActiveTasks /\ x.user = task[w].user /\ x.revision = task[w].revision
        /\ x.phase = task[w].phase
    BY <1>10, <2>1 DEF RemoteCall, ActiveTasks
  <2>3. task' = [task EXCEPT ![w] = x] /\ Running(w) /\ UNCHANGED claims
    BY <1>10, <2>1 DEF RemoteCall, TypeOK, ActiveTasks, Idle
  <2> HIDE DEF x
  <2> QED
    BY <1>2, <2>2, <2>3
<1>11. ASSUME NEW r \in Requests, \/ RecordIdentityReconciliationFailure(r)
                                  \/ CompleteIdentityRemoval(r)
                                  \/ CompleteIdentityReinstatement(r)
       PROVE  HoldersMove
  BY <1>1, <1>11 DEF RecordIdentityReconciliationFailure, CompleteIdentityRemoval,
                     CompleteIdentityReinstatement, Conflict, Workers
<1>12. ASSUME NEW w \in Reconcilers, \/ RecordExpiredIdentityReconciliationFailure(w)
                                     \/ CompleteExpiredIdentityReconciliation(w)
       PROVE  HoldersMove
  BY <1>1, <1>12 DEF RecordExpiredIdentityReconciliationFailure,
                     CompleteExpiredIdentityReconciliation, Superseded, Workers
<1>13. ASSUME NEW w \in Reconcilers, ClaimExpiredIdentityReconciliations(w)
       PROVE  HoldersMove
  <2>1. PICK batch \in SUBSET ExpiredCandidates :
          claims' = [claims EXCEPT ![w] =
                       {[user |-> u, revision |-> revision[u] + 1] : u \in batch}]
    BY <1>13 DEF ClaimExpiredIdentityReconciliations
  <2>2. \A c \in claims'[w] : c.user \in Users /\ c.revision = revision[c.user] + 1
    <3> SUFFICES ASSUME NEW c \in claims'[w]
                 PROVE  c.user \in Users /\ c.revision = revision[c.user] + 1
      OBVIOUS
    <3>1. PICK u \in batch : c = [user |-> u, revision |-> revision[u] + 1]
      BY <2>1 DEF TypeOK
    <3>2. u \in Users /\ c.user = u /\ c.revision = revision[u] + 1
      BY <3>1 DEF ExpiredCandidates
    <3> QED
      BY <3>2
  <2>3. \A v \in Reconcilers \ {w} : claims'[v] = claims[v]
    BY <2>1 DEF TypeOK
  <2> QED
    BY <1>13, <2>2, <2>3 DEF ClaimExpiredIdentityReconciliations, HoldersMove, ClaimsAreNew
<1>14. ASSUME NEW w \in Reconcilers, HandleClaim(w)
       PROVE  HoldersMove
  <2>1. PICK c \in claims[w] :
          /\ claims' = [claims EXCEPT ![w] = @ \ {c}]
          /\ task' = [task EXCEPT ![w] =
                        [NewTask("expiry", "grant_required", c.user, w)
                           EXCEPT !.revision = c.revision]]
    BY <1>14 DEF HandleClaim
  <2>2. /\ task'[w].user = c.user /\ task'[w].revision = c.revision
        /\ task'[w].phase = "remote"
    BY <2>1 DEF NewTask, TypeOK, Workers
  <2>3. \A v \in Workers \ {w} : task'[v] = task[v]
    BY <2>1 DEF TypeOK
  <2>4. claims'[w] = claims[w] \ {c} /\ \A v \in Reconcilers \ {w} : claims'[v] = claims[v]
    BY <2>1 DEF TypeOK
  <2> QED
    BY <2>2, <2>3, <2>4 DEF HoldersMove, ClaimIsTaken
<1>15. ASSUME NEW lost \in SUBSET Workers, Interrupt(lost)
       PROVE  HoldersMove
  BY <1>15 DEF Interrupt, HoldersMove, NoneIsNew, KeepsIntent
<1>16. CASE UNCHANGED <<task, claims>>
  BY <1>16 DEF HoldersMove, NoneIsNew, KeepsIntent
<1> QED
  BY <1>4, <1>5, <1>6, <1>7, <1>9, <1>10, <1>11, <1>12, <1>13, <1>14, <1>15, <1>16
  DEF Next, BeginRequest, RequestStep, ReconcilerStep, RemoteStep, Workers,
      CreateInitialSession, RevokeSession, SuspensionExpires, BackoffElapses

LEMMA NumberedStep ==
    ASSUME TypeOK, Numbered, [Next]_vars
    PROVE  Numbered'
<1> USE DEF Numbered, Running
<1>1. TypeOK' /\ HoldersMove
  BY TypeStep, HoldersSteps
<1>2. \A u \in Users : revision[u] + 1 # 0
  BY BoundsAssumption DEF TypeOK
<1>3. CASE NoneIsNew
  BY <1>3 DEF NoneIsNew, KeepsIntent
<1>4. ASSUME NEW r \in Workers, WorkerIsNew(r)
      PROVE  Numbered'
  BY <1>2, <1>4 DEF WorkerIsNew
<1>5. ASSUME NEW w \in Reconcilers, ClaimsAreNew(w)
      PROVE  Numbered'
  BY <1>2, <1>5 DEF ClaimsAreNew
<1>6. ASSUME NEW w \in Reconcilers, NEW c \in claims[w], ClaimIsTaken(w, c)
      PROVE  Numbered'
  <2>1. \A v \in Reconcilers : claims'[v] \subseteq claims[v]
    BY <1>6 DEF ClaimIsTaken
  <2> QED
    BY <1>6, <2>1 DEF ClaimIsTaken
<1> QED
  BY <1>1, <1>3, <1>4, <1>5, <1>6 DEF HoldersMove

\* The next revision of a user is nobody's yet.
LEMMA NextIsFresh ==
    ASSUME TypeOK, IntentOwnsRow, NEW u \in Users
    PROVE  /\ \A w \in Workers : Running(w) /\ task[w].user = u => task[w].revision # revision[u] + 1
           /\ \A w \in Reconcilers : \A c \in claims[w] : c.user = u => c.revision # revision[u] + 1
<1>1. revision[u] \in Nat
  BY BoundsAssumption DEF TypeOK
<1>2. ASSUME NEW w \in Workers, Running(w), task[w].user = u
      PROVE  task[w].revision # revision[u] + 1
  <2>1. task[w].revision \in Nat
    BY <1>2 DEF TypeOK, Running, ActiveTasks
  <2> QED
    BY <1>1, <1>2, <2>1 DEF IntentOwnsRow, TaskOwns
<1>3. ASSUME NEW w \in Reconcilers, NEW c \in claims[w], c.user = u
      PROVE  c.revision # revision[u] + 1
  <2>1. c.revision \in Nat
    BY DEF TypeOK
  <2> QED
    BY <1>1, <1>3, <2>1 DEF IntentOwnsRow, ClaimOwns
<1> QED
  BY <1>2, <1>3

\* The three kinds of pairs that never hold the same.
TasksDiffer(v, w) ==
    Running(v) /\ Running(w) /\ v # w /\ task[v].phase # "begin" =>
      task[v].user # task[w].user \/ task[v].revision # task[w].revision
TaskAndClaimsDiffer(v, w) ==
    Running(v) => [user |-> task[v].user, revision |-> task[v].revision] \notin claims[w]
ClaimsDiffer(v, w) == v # w => claims[v] \cap claims[w] = {}

LEMMA DistinctStep ==
    ASSUME TypeOK, Numbered, IntentOwnsRow, IntentsAreDistinct, [Next]_vars
    PROVE  IntentsAreDistinct'
<1> USE DEF Running
<1>0. TypeOK' /\ Numbered' /\ HoldersMove
  BY TypeStep, NumberedStep, HoldersSteps
<1>1. \A w \in Reconcilers : \A c \in claims[w] \cup claims'[w] :
         c = [user |-> c.user, revision |-> c.revision]
  BY <1>0 DEF TypeOK
<1>2. CASE NoneIsNew
  <2>1. ASSUME NEW v \in Workers, NEW w \in Workers PROVE TasksDiffer(v, w)'
    BY <1>0, <1>2 DEF NoneIsNew, KeepsIntent, Numbered, IntentsAreDistinct, TasksDiffer
  <2>2. ASSUME NEW v \in Workers, NEW w \in Reconcilers PROVE TaskAndClaimsDiffer(v, w)'
    <3>1. ASSUME task'[v].revision = 0
          PROVE  [user |-> task'[v].user, revision |-> task'[v].revision] \notin claims'[w]
      BY <1>0, <3>1 DEF Numbered
    <3> QED
      BY <1>2, <3>1 DEF NoneIsNew, KeepsIntent, IntentsAreDistinct, TaskAndClaimsDiffer
  <2>3. ASSUME NEW v \in Reconcilers, NEW w \in Reconcilers PROVE ClaimsDiffer(v, w)'
    BY <1>2 DEF NoneIsNew, IntentsAreDistinct, ClaimsDiffer
  <2> QED
    BY <2>1, <2>2, <2>3
      DEF IntentsAreDistinct, TasksDiffer, TaskAndClaimsDiffer, ClaimsDiffer
<1>3. ASSUME NEW r \in Workers, WorkerIsNew(r)
      PROVE  IntentsAreDistinct'
  <2> DEFINE u == task'[r].user
  <2>1. /\ u \in Users /\ task'[r].revision = revision[u] + 1
        /\ \A w \in Workers \ {r} : task'[w] = task[w]
        /\ \A w \in Reconcilers : claims'[w] = claims[w]
    BY <1>3 DEF WorkerIsNew
  <2>2. /\ \A w \in Workers : Running(w) /\ task[w].user = u => task[w].revision # revision[u] + 1
        /\ \A w \in Reconcilers : \A c \in claims[w] : c.user = u => c.revision # revision[u] + 1
    BY <2>1, NextIsFresh
  <2> HIDE DEF u
  <2>3. ASSUME NEW v \in Workers, NEW w \in Workers PROVE TasksDiffer(v, w)'
    BY <2>1, <2>2 DEF IntentsAreDistinct, TasksDiffer, u
  <2>4. ASSUME NEW v \in Workers, NEW w \in Reconcilers PROVE TaskAndClaimsDiffer(v, w)'
    BY <2>1, <2>2 DEF IntentsAreDistinct, TaskAndClaimsDiffer, u
  <2>5. ASSUME NEW v \in Reconcilers, NEW w \in Reconcilers PROVE ClaimsDiffer(v, w)'
    BY <2>1 DEF IntentsAreDistinct, ClaimsDiffer
  <2> QED
    BY <2>3, <2>4, <2>5
      DEF IntentsAreDistinct, TasksDiffer, TaskAndClaimsDiffer, ClaimsDiffer
<1>4. ASSUME NEW r \in Reconcilers, ClaimsAreNew(r)
      PROVE  IntentsAreDistinct'
  <2>1. /\ UNCHANGED task
        /\ \A v \in Reconcilers \ {r} : claims'[v] = claims[v]
        /\ \A c \in claims'[r] : c.user \in Users /\ c.revision = revision[c.user] + 1
    BY <1>4 DEF ClaimsAreNew
  <2>2. ASSUME NEW c \in claims'[r]
        PROVE  /\ \A w \in Workers : Running(w) /\ task[w].user = c.user
                                       => task[w].revision # c.revision
               /\ \A w \in Reconcilers : c \notin claims[w]
    BY <2>1, NextIsFresh
  <2>3. ASSUME NEW v \in Workers, NEW w \in Workers PROVE TasksDiffer(v, w)'
    BY <2>1 DEF IntentsAreDistinct, TasksDiffer
  <2>4. ASSUME NEW v \in Workers, NEW w \in Reconcilers PROVE TaskAndClaimsDiffer(v, w)'
    BY <2>1, <2>2 DEF IntentsAreDistinct, TaskAndClaimsDiffer
  <2>5. ASSUME NEW v \in Reconcilers, NEW w \in Reconcilers PROVE ClaimsDiffer(v, w)'
    BY <2>1, <2>2 DEF IntentsAreDistinct, ClaimsDiffer
  <2> QED
    BY <2>3, <2>4, <2>5
      DEF IntentsAreDistinct, TasksDiffer, TaskAndClaimsDiffer, ClaimsDiffer
<1>5. ASSUME NEW r \in Reconcilers, NEW c \in claims[r], ClaimIsTaken(r, c)
      PROVE  IntentsAreDistinct'
  <2>1. /\ task'[r].user = c.user /\ task'[r].revision = c.revision
        /\ \A v \in Workers \ {r} : task'[v] = task[v]
        /\ claims'[r] = claims[r] \ {c}
        /\ \A v \in Reconcilers \ {r} : claims'[v] = claims[v]
    BY <1>5 DEF ClaimIsTaken
  <2>2. c = [user |-> task'[r].user, revision |-> task'[r].revision]
    BY <1>1, <2>1
  <2>3. /\ \A v \in Workers : Running(v) => task[v].user # c.user \/ task[v].revision # c.revision
        /\ \A v \in Reconcilers : c \notin claims'[v]
    BY <1>1, <2>1 DEF IntentsAreDistinct
  <2>4. ASSUME NEW v \in Workers, NEW w \in Workers PROVE TasksDiffer(v, w)'
    BY <2>1, <2>3 DEF IntentsAreDistinct, TasksDiffer
  <2>5. ASSUME NEW v \in Workers, NEW w \in Reconcilers PROVE TaskAndClaimsDiffer(v, w)'
    BY <2>1, <2>2, <2>3 DEF IntentsAreDistinct, TaskAndClaimsDiffer
  <2>6. ASSUME NEW v \in Reconcilers, NEW w \in Reconcilers PROVE ClaimsDiffer(v, w)'
    BY <2>1 DEF IntentsAreDistinct, ClaimsDiffer
  <2> QED
    BY <2>4, <2>5, <2>6
      DEF IntentsAreDistinct, TasksDiffer, TaskAndClaimsDiffer, ClaimsDiffer
<1> QED
  BY <1>0, <1>2, <1>3, <1>4, <1>5 DEF HoldersMove

-----------------------------------------------------------------------------
(* The theorems. *)

\* Together the invariants are inductive.
Inv ==
    /\ TypeOK /\ AuthorizedIsDenied /\ Standing /\ AdministratorContinuity /\ IntentOwnsRow
    /\ Numbered /\ IntentsAreDistinct

LEMMA InitInv == Init => Inv
<1> SUFFICES ASSUME Init PROVE Inv
  OBVIOUS
<1>1. TypeOK
  BY BoundsAssumption DEF Init, TypeOK, SyncStates, RequiredStates, GroupNames
<1>2. Standing
  BY DEF Init, Standing, SuspensionDenies, SessionsFollowAccess, InGoodStanding
<1>3. AdministratorContinuity
  BY DEF Init, AdministratorContinuity
<1>4. IntentOwnsRow
  BY DEF Init, IntentOwnsRow, Running
<1>5. AuthorizedIsDenied
  BY DEF Init, AuthorizedIsDenied, Idle
<1>6. Numbered /\ IntentsAreDistinct
  BY DEF Init, Numbered, IntentsAreDistinct, Running
<1> QED
  BY <1>1, <1>2, <1>3, <1>4, <1>5, <1>6 DEF Inv

LEMMA StepInv == Inv /\ [Next]_vars => Inv'
  BY TypeStep, AuthorizedStep, StandingStep, ContinuityStep, OwnershipStep, NumberedStep,
     DistinctStep
  DEF Inv

LEMMA SpecInv == Spec => []Inv
  BY InitInv, StepInv, PTL DEF Spec

\* Every variable keeps its type; in particular no revision leaves its width.
THEOREM TypeCorrect == Spec => []TypeOK
<1>1. Inv => TypeOK
  BY DEF Inv
<1> QED
  BY <1>1, SpecInv, PTL

\* A session that is not revoked belongs to a user in good standing, however
\* requests, workers, failures and crashes interleave.
THEOREM SessionsFollowAccessAlways == Spec => []SessionsFollowAccess
<1>1. Inv => SessionsFollowAccess
  BY DEF Inv, Standing
<1> QED
  BY <1>1, SpecInv, PTL

\* A user whose suspension is in force is never accepted.
THEOREM SuspensionDeniesAlways == Spec => []SuspensionDenies
<1>1. Inv => SuspensionDenies
  BY DEF Inv, Standing
<1> QED
  BY <1>1, SpecInv, PTL

\* The Board always has an active administrator.
THEOREM ContinuityAlways == Spec => []AdministratorContinuity
<1>1. Inv => AdministratorContinuity
  BY DEF Inv
<1> QED
  BY <1>1, SpecInv, PTL

\* While the row carries a task's revision, it asks for what the task does.
THEOREM IntentOwnsRowAlways == Spec => []IntentOwnsRow
<1>1. Inv => IntentOwnsRow
  BY DEF Inv
<1> QED
  BY <1>1, SpecInv, PTL

\* No two tasks or claims in progress hold the same revision of one user, so
\* that a completion can only be of the intent its own holder committed.
THEOREM IntentsAreDistinctAlways == Spec => []IntentsAreDistinct
<1>1. Inv => IntentsAreDistinct
  BY DEF Inv
<1> QED
  BY <1>1, SpecInv, PTL

-----------------------------------------------------------------------------
(* The protocol implements BoardAccess. *)

Verifying(t) == t.phase \in {"complete", "commit"}
SameIntent(t, s) == t.user = s.user /\ t.intent = s.intent /\ t.revision = s.revision

\* A worker has its outcome verified only by reading the groups, and what a
\* reconciler works on is always a grant.
PhaseMoves(w) ==
    /\ \/ ~Verifying(task'[w])
       \/ Verifying(task[w]) /\ SameIntent(task'[w], task[w])
       \/ RemoteVerify(w)
    /\ w \in Reconcilers =>
         \/ task'[w] = Idle \/ task'[w].intent = "grant_required"
         \/ Running(w) /\ task'[w].intent = task[w].intent

LEMMA PhasesMove ==
    ASSUME TypeOK, [Next]_vars, NEW v \in Workers
    PROVE  PhaseMoves(v)
<1> USE DEF PhaseMoves, Verifying, SameIntent, Running
<1>1. ASSUME NEW w \in Workers, Ends(w)
      PROVE  PhaseMoves(v)
  BY <1>1 DEF Ends, TypeOK, Idle
<1>2. ASSUME NEW w \in Workers, NEW x, task' = [task EXCEPT ![w] = x],
             x.phase \notin {"complete", "commit"},
             \/ w \in Requests \/ x.intent = "grant_required"
             \/ Running(w) /\ x.intent = task[w].intent
      PROVE  PhaseMoves(v)
  <2>1. CASE v = w
    BY <1>2, <2>1, WorkersAssumption DEF TypeOK
  <2>2. CASE v # w
    BY <1>2, <2>2 DEF TypeOK
  <2> QED
    BY <2>1, <2>2
<1>3. ASSUME NEW w \in Workers, task[w] \in ActiveTasks, NEW p \in {"remote", "record"},
             task' = [task EXCEPT ![w].phase = p]
      PROVE  PhaseMoves(v)
  <2> DEFINE x == [task[w] EXCEPT !.phase = p]
  <2>1. /\ task' = [task EXCEPT ![w] = x] /\ x.phase = p /\ x.intent = task[w].intent
        /\ Running(w)
    BY <1>3 DEF TypeOK, ActiveTasks, Idle
  <2> HIDE DEF x
  <2> QED
    BY <1>2, <2>1
<1>4. ASSUME NEW r \in Requests,
             \E a, u \in Users : \/ SuspendUser(r, a, u) \/ AuthorizeReinstatement(r, a, u)
                                 \/ BeginManualIdentityReconciliation(r, a, u)
      PROVE  PhaseMoves(v)
  BY <1>2, <1>4 DEF SuspendUser, AuthorizeReinstatement, BeginManualIdentityReconciliation,
                    Begin, NewTask, Workers
<1>5. ASSUME NEW r \in Requests, BeginIdentityReinstatement(r)
      PROVE  PhaseMoves(v)
  <2>1. r \in Workers /\ task[r] \in ActiveTasks
    BY <1>5, PhaseType DEF BeginIdentityReinstatement, Workers
  <2>2. CASE \E p, m : Conflict(r, p, m)
    BY <1>1, <2>1, <2>2 DEF Conflict
  <2>3. CASE task' = [task EXCEPT ![r].phase = "remote",
                                  ![r].revision = revision[task[r].user] + 1]
    <3> DEFINE x == [task[r] EXCEPT !.phase = "remote", !.revision = revision[task[r].user] + 1]
    <3>1. task' = [task EXCEPT ![r] = x] /\ x.phase = "remote"
      BY <2>1, <2>3 DEF TypeOK, ActiveTasks
    <3> HIDE DEF x
    <3> QED
      BY <1>2, <2>1, <3>1
  <2> QED
    BY <1>5, <2>2, <2>3 DEF BeginIdentityReinstatement
<1>6. ASSUME NEW r \in Requests, LoadSuspendedIdentityTarget(r)
      PROVE  PhaseMoves(v)
  <2>1. r \in Workers /\ task[r] \in ActiveTasks
    BY <1>6, PhaseType DEF LoadSuspendedIdentityTarget, Workers
  <2> QED
    BY <1>1, <1>3, <1>6, <2>1 DEF LoadSuspendedIdentityTarget
<1>7. ASSUME NEW w \in Workers, RemoteCall(w)
      PROVE  PhaseMoves(v)
  <2>1. task[w] \in ActiveTasks
    BY <1>7, PhaseType DEF RemoteCall
  <2> DEFINE x == [task[w] EXCEPT !.step = @ + 1]
  <2>2. /\ task' = [task EXCEPT ![w] = x] /\ x.phase = "remote" /\ x.intent = task[w].intent
        /\ Running(w)
    BY <1>7, <2>1 DEF RemoteCall, TypeOK, ActiveTasks, Idle
  <2> HIDE DEF x
  <2> QED
    BY <1>2, <2>2
<1>8. ASSUME NEW w \in Workers, RemoteFailure(w)
      PROVE  PhaseMoves(v)
  BY <1>3, <1>8, PhaseType DEF RemoteFailure
<1>9. ASSUME NEW w \in Workers, RemoteVerify(w)
      PROVE  PhaseMoves(v)
  <2>1. task[w] \in ActiveTasks
    BY <1>9, PhaseType DEF RemoteVerify
  <2>2. CASE v = w
    BY <1>9, <2>1, <2>2 DEF RemoteVerify, TypeOK, ActiveTasks, Idle
  <2>3. CASE v # w
    BY <1>9, <2>3 DEF RemoteVerify, TypeOK
  <2> QED
    BY <2>2, <2>3
<1>10. ASSUME NEW r \in Requests, AuthorizeCompletion(r)
       PROVE  PhaseMoves(v)
  <2>1. r \in Workers /\ task[r] \in ActiveTasks
    BY <1>10, PhaseType DEF AuthorizeCompletion, Workers
  <2>2. CASE \E p, m : Conflict(r, p, m)
    BY <1>1, <2>1, <2>2 DEF Conflict
  <2>3. CASE task' = [task EXCEPT ![r].phase = "commit"]
    <3>1. CASE v = r
      BY <1>10, <2>1, <2>3, <3>1, WorkersAssumption DEF AuthorizeCompletion, TypeOK, ActiveTasks
    <3>2. CASE v # r
      BY <2>3, <3>2 DEF TypeOK
    <3> QED
      BY <3>1, <3>2
  <2> QED
    BY <1>10, <2>2, <2>3 DEF AuthorizeCompletion
<1>11. ASSUME NEW r \in Requests, \/ RecordIdentityReconciliationFailure(r)
                                  \/ CompleteIdentityRemoval(r)
                                  \/ CompleteIdentityReinstatement(r)
       PROVE  PhaseMoves(v)
  BY <1>1, <1>11 DEF RecordIdentityReconciliationFailure, CompleteIdentityRemoval,
                     CompleteIdentityReinstatement, Conflict, Workers
<1>12. ASSUME NEW w \in Reconcilers, \/ RecordExpiredIdentityReconciliationFailure(w)
                                     \/ CompleteExpiredIdentityReconciliation(w)
       PROVE  PhaseMoves(v)
  BY <1>1, <1>12 DEF RecordExpiredIdentityReconciliationFailure,
                     CompleteExpiredIdentityReconciliation, Superseded, Workers
<1>13. ASSUME NEW w \in Reconcilers, HandleClaim(w)
       PROVE  PhaseMoves(v)
  <2>1. PICK c \in claims[w] :
          task' = [task EXCEPT ![w] = [NewTask("expiry", "grant_required", c.user, w)
                                         EXCEPT !.revision = c.revision]]
    BY <1>13 DEF HandleClaim
  <2> DEFINE x == [NewTask("expiry", "grant_required", c.user, w) EXCEPT !.revision = c.revision]
  <2>2. x.phase = "remote" /\ x.intent = "grant_required"
    BY DEF NewTask
  <2> HIDE DEF x
  <2>3. task' = [task EXCEPT ![w] = x] /\ w \in Workers
    BY <2>1 DEF x, Workers
  <2> QED
    BY <1>2, <2>2, <2>3
<1>14. ASSUME NEW lost \in SUBSET Workers, Interrupt(lost)
       PROVE  PhaseMoves(v)
  BY <1>14 DEF Interrupt, Idle
<1>15. CASE UNCHANGED task
  BY <1>15
<1> QED
  BY <1>4, <1>5, <1>6, <1>7, <1>8, <1>9, <1>10, <1>11, <1>12, <1>13, <1>14, <1>15
  DEF Next, BeginRequest, RequestStep, ReconcilerStep, RemoteStep, Workers,
      ClaimExpiredIdentityReconciliations,
      CreateInitialSession, RevokeSession, SuspensionExpires, BackoffElapses

\* The expiry worker only ever restores access.
ReconcilersGrant == \A w \in Reconcilers : Running(w) => task[w].intent = "grant_required"

LEMMA ReconcilersGrantStep ==
    ASSUME TypeOK, ReconcilersGrant, [Next]_vars
    PROVE  ReconcilersGrant'
  BY PhasesMove DEF PhaseMoves, ReconcilersGrant, Running, Workers

\* Without a new reading of the groups nobody else is confirmed, and whoever
\* stays confirmed has had no new revision.
LEMMA ConfirmedShrinks ==
    ASSUME TypeOK, TypeOK', AuthorizedIsDenied, IntentOwnsRow, [Next]_vars,
           \A w \in Workers : ~RemoteVerify(w)
    PROVE  Confirmed' \subseteq Confirmed
<1> SUFFICES ASSUME NEW u \in Users, NEW w \in Workers, Verifying(task'[w]),
                    task'[w].user = u, task'[w].intent = "grant_required",
                    sync'[u] = "grant_required", revision'[u] = task'[w].revision
             PROVE  u \in Confirmed
  BY DEF Confirmed, OwnsRow, Verifying
<1>1. Verifying(task[w]) /\ SameIntent(task'[w], task[w])
  BY PhasesMove DEF PhaseMoves
<1>2. task[w] \in ActiveTasks
  BY <1>1, PhaseType DEF Verifying
<1>3. task[w].revision <= revision[u]
  BY <1>1, <1>2 DEF SameIntent, IntentOwnsRow, Running, TaskOwns, Verifying, Idle
<1>4. revision[u] \in Nat /\ task[w].revision \in Nat
  BY <1>2, BoundsAssumption DEF TypeOK, ActiveTasks
<1>5. RowMoves(u)
  BY RowsMove
<1>6. revision'[u] = revision[u] /\ sync'[u] = sync[u]
  BY <1>1, <1>3, <1>4, <1>5 DEF RowMoves, SameIntent
<1> QED
  BY <1>1, <1>6 DEF Confirmed, OwnsRow, Verifying, SameIntent

\* A user whose row and verified tasks are left alone stays confirmed.
LEMMA ConfirmedStays ==
    ASSUME NEW u \in Confirmed, sync'[u] = sync[u], revision'[u] = revision[u],
           \A w \in Workers : Verifying(task[w]) /\ task[w].user = u =>
               Verifying(task'[w]) /\ SameIntent(task'[w], task[w])
    PROVE  u \in Confirmed'
  BY DEF Confirmed, OwnsRow, Verifying, SameIntent

Granted  == {u \in Users : sync[u] = "accepted"}
Signed   == {u \in Users : session[u]}
Accepted == {u \in Users : groups[u] = {"accepted"}}

\* The abstract actions over the mapped state.
LEMMA AbstractActions ==
    /\ \A u \in Users :
         /\ /\ Granted \cap (Administrators \ {u}) # {}
            /\ Granted' = Granted \ {u} /\ Signed' = Signed \ {u}
            /\ Confirmed' = Confirmed \ {u} /\ Accepted' = Accepted
            => Access!Deny(u)
         /\ /\ u \in Accepted \ Granted /\ Confirmed' = Confirmed \cup {u}
            /\ UNCHANGED <<Granted, Signed, Accepted>>
            => Access!Confirm(u)
         /\ /\ u \in Confirmed /\ Granted' = Granted \cup {u} /\ Confirmed' = Confirmed \ {u}
            /\ UNCHANGED <<Signed, Accepted>>
            => Access!Restore(u)
         /\ /\ (u \in Granted /\ Signed' = Signed \cup {u}) \/ Signed' = Signed \ {u}
            /\ UNCHANGED <<Granted, Accepted, Confirmed>>
            => Access!ChangeSession(u)
    /\ Confirmed' \subseteq Confirmed /\ UNCHANGED <<Granted, Signed, Accepted>>
         => Access!Withdraw
    /\ UNCHANGED <<Granted, Signed, Confirmed>> => Access!RemoteChange
  BY DEF Access!vars, Access!Deny, Access!Confirm, Access!Restore, Access!ChangeSession,
         Access!Withdraw, Access!RemoteChange, Granted, Signed, Accepted

\* Each step of the protocol is a step of the abstract one, or none.
LEMMA AccessStep ==
    ASSUME Inv, Inv', ReconcilersGrant, [Next]_vars
    PROVE  [Access!Next]_(Access!vars)
<1> DEFINE Goal == [Access!Next]_(Access!vars)
<1> USE DEF Inv
<1>a. TypeOK /\ TypeOK' /\ AuthorizedIsDenied /\ IntentOwnsRow
  OBVIOUS
<1>b. /\ Access!Next <=> \/ \E u \in Users : \/ Access!Deny(u) \/ Access!Confirm(u)
                                             \/ Access!Restore(u) \/ Access!ChangeSession(u)
                         \/ Access!Withdraw
                         \/ Access!RemoteChange
      /\ UNCHANGED <<Granted, Signed, Accepted, Confirmed>> => UNCHANGED Access!vars
  BY DEF Access!Next, Access!vars, Granted, Signed, Accepted
<1> HIDE DEF Inv
\* Steps that at most void a confirmation.
<1>1. ASSUME Confirmed' \subseteq Confirmed, Granted' = Granted, UNCHANGED <<session, groups>>
      PROVE  Goal
  BY <1>1, <1>b, AbstractActions DEF Signed, Accepted
\* Steps of one worker on one row.
<1>2. ASSUME NEW u \in Users, NEW w \in Workers, NEW state \in SyncStates, NEW now \in BOOLEAN,
             Advance(u, state, now), task[w] = Idle \/ task[w].user = u,
             \A v \in Workers \ {w} : task'[v] = task[v]
      PROVE  /\ Granted' = IF state = "accepted" THEN Granted \cup {u} ELSE Granted \ {u}
             /\ Confirmed \ {u} \subseteq Confirmed'
             /\ state # "grant_required" => u \notin Confirmed'
  <2>1. sync'[u] = state /\ \A v \in Users \ {u} : sync'[v] = sync[v] /\ revision'[v] = revision[v]
    BY <1>2, <1>a DEF Advance, TypeOK
  <2>2. Granted' = IF state = "accepted" THEN Granted \cup {u} ELSE Granted \ {u}
    BY <2>1 DEF Granted
  <2>3. ASSUME NEW v \in Confirmed \ {u}
        PROVE  v \in Confirmed'
    <3>1. v \in Users
      BY DEF Confirmed
    <3>2. \A x \in Workers : Verifying(task[x]) /\ task[x].user = v => x # w
      BY <1>2, <2>3 DEF Verifying, Idle
    <3>3. sync'[v] = sync[v] /\ revision'[v] = revision[v]
      BY <2>1, <2>3, <3>1
    <3>4. \A x \in Workers : Verifying(task[x]) /\ task[x].user = v =>
            Verifying(task'[x]) /\ SameIntent(task'[x], task[x])
      BY <1>2, <3>2 DEF SameIntent
    <3> QED
      BY <2>3, <3>3, <3>4, ConfirmedStays
  <2>4. state # "grant_required" => u \notin Confirmed'
    BY <2>1 DEF Confirmed, OwnsRow
  <2> QED
    BY <2>2, <2>3, <2>4
<1>3. CASE \E w \in Workers : RemoteVerify(w)
  <2>1. PICK w \in Workers : RemoteVerify(w)
    BY <1>3
  <2>2. task[w] \in ActiveTasks /\ task[w].phase = "remote"
    BY <2>1, <1>a, PhaseType DEF RemoteVerify
  <2> DEFINE u == task[w].user
  <2>3. u \in Users
    BY <2>2 DEF ActiveTasks
  <2>4. UNCHANGED <<sync, revision, session, groups>> /\ \A v \in Workers \ {w} : task'[v] = task[v]
    BY <2>1, <1>a DEF RemoteVerify, TypeOK
  <2>5. /\ SameIntent(task'[w], task[w])
        /\ Verifying(task'[w]) => groups[u] = {Joined(task[w].intent)}
    BY <2>1, <2>2, <1>a DEF RemoteVerify, TypeOK, ActiveTasks, SameIntent, Verifying
  <2> HIDE DEF u
  <2>6. Confirmed \subseteq Confirmed'
    <3> SUFFICES ASSUME NEW v \in Confirmed PROVE v \in Confirmed'
      OBVIOUS
    <3>1. \A x \in Workers : Verifying(task[x]) => x # w
      BY <2>2 DEF Verifying
    <3> QED
      BY <2>4, <3>1, ConfirmedStays DEF SameIntent
  <2>7. Confirmed' \subseteq Confirmed \cup {u}
    BY <2>4, <2>5 DEF Confirmed, OwnsRow, SameIntent, u
  <2>8. ASSUME u \in Confirmed', u \notin Confirmed
        PROVE  u \in Accepted \ Granted
    <3>1. PICK x \in Workers : /\ Verifying(task'[x]) /\ task'[x].user = u
                               /\ task'[x].intent = "grant_required"
                               /\ OwnsRow(task[x])'
      BY <2>8 DEF Confirmed, Verifying
    <3>2. x = w
      BY <2>4, <2>8, <3>1 DEF Confirmed, Verifying, OwnsRow
    <3>3. groups[u] = {"accepted"} /\ sync[u] = "grant_required"
      BY <2>4, <2>5, <3>1, <3>2 DEF Joined, SameIntent, OwnsRow, u
    <3> QED
      BY <2>3, <3>3 DEF Accepted, Granted, u
  <2>9. UNCHANGED <<Granted, Signed, Accepted>>
    BY <2>4 DEF Granted, Signed, Accepted
  <2>10. CASE Confirmed' = Confirmed
    BY <2>9, <2>10, <1>b
  <2>11. CASE Confirmed' # Confirmed
    <3>1. u \notin Confirmed /\ u \in Confirmed' /\ Confirmed' = Confirmed \cup {u}
      BY <2>6, <2>7, <2>11
    <3>2. u \in Users
      BY <2>3 DEF u
    <3>3. Access!Confirm(u)
      BY <2>8, <2>9, <3>1, <3>2, AbstractActions
    <3> QED
      BY <3>2, <3>3, <1>b
  <2> QED
    BY <2>10, <2>11
<1>4. CASE \A w \in Workers : ~RemoteVerify(w)
  <2>1. Confirmed' \subseteq Confirmed
    BY <1>4, <1>a, ConfirmedShrinks
  <2>2. ASSUME NEW w \in Workers, RemoteCall(w) \/ RemoteFailure(w)
        PROVE  Goal
    <3>1. UNCHANGED <<sync, revision, session>> /\ \A v \in Workers \ {w} : task'[v] = task[v]
      BY <2>2, <1>a DEF RemoteCall, RemoteFailure, TypeOK
    <3>2. ~Verifying(task[w])
      BY <2>2 DEF RemoteCall, RemoteFailure, Verifying
    <3>3. Confirmed \subseteq Confirmed'
      <4> SUFFICES ASSUME NEW v \in Confirmed PROVE v \in Confirmed'
        OBVIOUS
      <4> QED
        BY <3>1, <3>2, ConfirmedStays DEF SameIntent
    <3>4. UNCHANGED <<Granted, Signed, Confirmed>>
      BY <2>1, <3>1, <3>3 DEF Granted, Signed
    <3> QED
      BY <3>4, <1>b, AbstractActions
  <2>3. ASSUME NEW r \in Requests, NEW a \in Users, NEW u \in Users, SuspendUser(r, a, u)
        PROVE  Goal
    <3>1. /\ Advance(u, "removal_required", TRUE) /\ task[r] = Idle /\ r \in Workers
          /\ \A v \in Workers \ {r} : task'[v] = task[v]
      BY <2>3, <1>a DEF SuspendUser, SuspendUserAndAudit, Begin, TypeOK, Workers
    <3>2. /\ Granted' = Granted \ {u} /\ Confirmed \ {u} \subseteq Confirmed' /\ u \notin Confirmed'
      <4>1. "removal_required" \in SyncStates
        BY DEF SyncStates, RequiredStates
      <4> QED
        BY <3>1, <4>1, <1>2
    <3>3. Signed' = Signed \ {u} /\ Accepted' = Accepted
      BY <2>3, <1>a DEF SuspendUser, SuspendUserAndAudit, Begin, TypeOK, Signed, Accepted
    <3>4. Granted \cap (Administrators \ {u}) # {}
      <4>1. PICK v \in Administrators : v \in Granted'
        BY UsersAssumption DEF Inv, AdministratorContinuity, ActiveAdministrators, InGoodStanding, Granted
      <4> QED
        BY <3>2, <4>1
    <3>5. Confirmed' = Confirmed \ {u}
      BY <2>1, <3>2
    <3>6. Access!Deny(u)
      BY <3>2, <3>3, <3>4, <3>5, AbstractActions
    <3> QED
      BY <3>6, <1>b
  <2>4. ASSUME NEW w \in Workers, task[w] \in ActiveTasks, Verifying(task[w]),
               task[w].intent = "grant_required", OwnsRow(task[w]),
               Advance(task[w].user, "accepted", TRUE), Ends(w), UNCHANGED <<session, groups>>
        PROVE  Goal
    <3>1. PICK u \in Users : u = task[w].user
      BY <2>4 DEF ActiveTasks
    <3>2. u \in Confirmed
      BY <2>4, <3>1 DEF Confirmed, Verifying
    <3>3. \A v \in Workers \ {w} : task'[v] = task[v]
      BY <2>4, <1>a DEF Ends, TypeOK
    <3>4. Advance(u, "accepted", TRUE) /\ task[w].user = u /\ "accepted" \in SyncStates
      BY <2>4, <3>1 DEF SyncStates
    <3>5. /\ Granted' = Granted \cup {u} /\ Confirmed \ {u} \subseteq Confirmed' /\ u \notin Confirmed'
      BY <3>3, <3>4, <1>2
    <3>6. Confirmed' = Confirmed \ {u} /\ UNCHANGED <<Signed, Accepted>>
      BY <2>1, <2>4, <3>5 DEF Signed, Accepted
    <3>7. Access!Restore(u)
      BY <3>2, <3>5, <3>6, AbstractActions
    <3> QED
      BY <3>7, <1>b
  <2>5. ASSUME NEW r \in Requests, CompleteIdentityReinstatement(r)
        PROVE  Goal
    <3>1. CASE \E p, m : Conflict(r, p, m)
      BY <1>1, <2>1, <3>1 DEF Conflict, Granted
    <3>2. CASE /\ OwnsRow(task[r]) /\ Advance(task[r].user, "accepted", TRUE) /\ Ends(r)
               /\ UNCHANGED <<session, groups>>
      <4>1. r \in Workers /\ task[r] \in ActiveTasks /\ Verifying(task[r])
            /\ task[r].intent = "grant_required"
        BY <2>5, <1>a, PhaseType DEF CompleteIdentityReinstatement, Verifying, Workers
      <4> QED
        BY <2>4, <3>2, <4>1
    <3> QED
      BY <2>5, <3>1, <3>2 DEF CompleteIdentityReinstatement, CanCompleteReinstatement,
                              CanCommitReinstatement
  <2>6. ASSUME NEW w \in Reconcilers, CompleteExpiredIdentityReconciliation(w)
        PROVE  Goal
    <3>1. CASE \E p, m : Superseded(w, p, m)
      BY <1>1, <2>1, <3>1 DEF Superseded, Granted
    <3>2. CASE /\ task[w].phase = "complete" /\ OwnsRow(task[w])
               /\ Advance(task[w].user, "accepted", TRUE) /\ Ends(w) /\ UNCHANGED <<session, groups>>
      <4>1. w \in Workers /\ task[w] \in ActiveTasks /\ Verifying(task[w])
        BY <3>2, <1>a, PhaseType DEF Verifying, Workers
      <4>2. task[w].intent = "grant_required"
        BY <3>2 DEF ReconcilersGrant, Running, Idle
      <4> QED
        BY <2>4, <3>2, <4>1, <4>2
    <3> QED
      BY <2>6, <3>1, <3>2 DEF CompleteExpiredIdentityReconciliation, CanCompleteExpired
  <2>7. ASSUME NEW u \in Users, CreateInitialSession(u) \/ RevokeSession(u)
        PROVE  Goal
    <3>1. UNCHANGED <<sync, revision, task, groups>>
      BY <2>7 DEF CreateInitialSession, RevokeSession
    <3>2. Confirmed' = Confirmed /\ UNCHANGED <<Granted, Accepted>>
      BY <3>1 DEF Confirmed, OwnsRow, Granted, Accepted
    <3>3. (u \in Granted /\ Signed' = Signed \cup {u}) \/ Signed' = Signed \ {u}
      BY <2>7, <1>a DEF CreateInitialSession, RevokeSession, TypeOK, Granted, Signed
    <3>4. Access!ChangeSession(u)
      BY <3>2, <3>3, AbstractActions
    <3> QED
      BY <3>4, <1>b
  \* The rest writes no row that grants access, or one that goes on to deny it.
  <2>8. ASSUME NEW u \in Users, NEW state \in SyncStates, NEW now \in BOOLEAN,
               sync[u] # "accepted", state # "accepted", Advance(u, state, now),
               UNCHANGED <<session, groups>>
        PROVE  Goal
    BY <1>1, <1>a, <2>1, <2>8 DEF Advance, Granted, TypeOK
  <2>9. ASSUME NEW r \in Requests, BeginRequest(r)
        PROVE  Goal
    <3>1. ASSUME NEW a \in Users, NEW u \in Users, AuthorizeReinstatement(r, a, u)
          PROVE  Goal
      BY <1>1, <2>1, <3>1 DEF AuthorizeReinstatement, Begin, Granted
    <3>2. ASSUME NEW a \in Users, NEW u \in Users, BeginManualIdentityReconciliation(r, a, u)
          PROVE  Goal
      BY <2>8, <3>2 DEF BeginManualIdentityReconciliation, Begin, SyncStates, RequiredStates
    <3> QED
      BY <2>3, <2>9, <3>1, <3>2 DEF BeginRequest
  <2>10. ASSUME NEW r \in Requests, BeginIdentityReinstatement(r)
         PROVE  Goal
    <3>1. r \in Workers /\ task[r] \in ActiveTasks
      BY <2>10, <1>a, PhaseType DEF BeginIdentityReinstatement, Workers
    <3>2. CASE \E p, m : Conflict(r, p, m)
      BY <1>1, <2>1, <3>2 DEF Conflict, Granted
    <3>3. CASE /\ suspension[task[r].user] # "none" /\ Advance(task[r].user, "grant_required", TRUE)
               /\ UNCHANGED <<session, groups>>
      <4>1. task[r].user \in Users /\ sync[task[r].user] # "accepted"
        BY <2>10, <1>a, <3>1, <3>3 DEF AuthorizedIsDenied, BeginIdentityReinstatement, ActiveTasks
      <4> QED
        BY <2>8, <3>3, <4>1 DEF SyncStates, RequiredStates
    <3> QED
      BY <2>10, <3>2, <3>3 DEF BeginIdentityReinstatement
  <2>11. ASSUME NEW w \in Workers, task[w] \in ActiveTasks, OwnsRow(task[w]), UNCHANGED <<session, groups>>,
                NEW state \in SyncStates \ {"accepted"}, NEW now \in BOOLEAN,
                Advance(task[w].user, state, now)
         PROVE  Goal
    <3>1. task[w].user \in Users /\ sync[task[w].user] # "accepted"
      BY <2>11 DEF OwnsRow, ActiveTasks, RequiredStates
    <3> QED
      BY <2>8, <2>11, <3>1
  <2>12. ASSUME NEW r \in Requests, RecordIdentityReconciliationFailure(r) \/ CompleteIdentityRemoval(r)
         PROVE  Goal
    <3>1. r \in Workers /\ task[r] \in ActiveTasks
      BY <2>12, <1>a, PhaseType
         DEF RecordIdentityReconciliationFailure, CompleteIdentityRemoval, Conflict, Workers
    <3>2. task[r].intent \in SyncStates \ {"accepted"} /\ "suspended" \in SyncStates \ {"accepted"}
      BY <3>1 DEF ActiveTasks, SyncStates, RequiredStates
    <3>3. CASE \E p, m : Conflict(r, p, m)
      BY <1>1, <2>1, <3>3 DEF Conflict, Granted
    <3> QED
      BY <2>11, <2>12, <3>1, <3>2, <3>3
         DEF RecordIdentityReconciliationFailure, CompleteIdentityRemoval, CanCompleteRemoval
  <2>13. ASSUME NEW w \in Reconcilers, RecordExpiredIdentityReconciliationFailure(w)
         PROVE  Goal
    <3>1. CASE \E p, m : Superseded(w, p, m)
      BY <1>1, <2>1, <3>1 DEF Superseded, Granted
    <3>2. CASE /\ task[w].phase = "record" /\ OwnsRow(task[w])
               /\ Advance(task[w].user, "grant_required", FALSE) /\ UNCHANGED <<session, groups>>
      <4>1. w \in Workers /\ task[w] \in ActiveTasks
        BY <3>2, <1>a, PhaseType DEF Workers
      <4> QED
        BY <2>11, <3>2, <4>1 DEF SyncStates, RequiredStates
    <3> QED
      BY <2>13, <3>1, <3>2 DEF RecordExpiredIdentityReconciliationFailure
  <2>14. ASSUME NEW w \in Reconcilers, ClaimExpiredIdentityReconciliations(w)
         PROVE  Goal
    <3>1. PICK batch \in SUBSET ExpiredCandidates :
            sync' = [u \in Users |-> IF u \in batch THEN "grant_required" ELSE sync[u]]
      BY <2>14 DEF ClaimExpiredIdentityReconciliations
    <3>2. \A u \in batch : sync[u] # "accepted"
      BY DEF ExpiredCandidates, RequiredStates
    <3>3. Granted' = Granted
      BY <3>1, <3>2 DEF Granted
    <3> QED
      BY <1>1, <2>1, <2>14, <3>3 DEF ClaimExpiredIdentityReconciliations
  <2>15. ASSUME UNCHANGED <<sync, session, groups>>
         PROVE  Goal
    BY <1>1, <2>1, <2>15 DEF Granted
  <2>16. ASSUME NEW r \in Requests, LoadSuspendedIdentityTarget(r) \/ AuthorizeCompletion(r)
         PROVE  Goal
    BY <2>15, <2>16 DEF LoadSuspendedIdentityTarget, AuthorizeCompletion, Conflict
  <2>17. ASSUME NEW w \in Reconcilers, HandleClaim(w)
         PROVE  Goal
    BY <2>15, <2>17 DEF HandleClaim
  <2>18. ASSUME NEW u \in Users, SuspensionExpires(u) \/ BackoffElapses(u)
         PROVE  Goal
    BY <2>15, <2>18 DEF SuspensionExpires, BackoffElapses
  <2>19. ASSUME NEW lost \in SUBSET Workers, Interrupt(lost)
         PROVE  Goal
    BY <2>15, <2>19 DEF Interrupt
  <2>20. CASE UNCHANGED vars
    BY <2>15, <2>20
  <2> QED
    BY <1>4, <2>2, <2>5, <2>6, <2>7, <2>9, <2>10, <2>12, <2>13, <2>14, <2>16, <2>17, <2>18, <2>19,
       <2>20
    DEF Next, RequestStep, ReconcilerStep, RemoteStep, Workers
<1> QED
  BY <1>3, <1>4

LEMMA AccessInit == Init => Access!Init
<1> SUFFICES ASSUME Init PROVE Access!Init
  OBVIOUS
<1>1. Granted \cap Administrators # {}
  BY UsersAssumption DEF Init, ActiveAdministrators, InGoodStanding, Granted
<1>2. Signed \subseteq Granted
  BY DEF Init, InGoodStanding, Signed, Granted
<1>3. Confirmed = {}
  BY DEF Init, Confirmed, Idle
<1>4. Granted \subseteq Users /\ Accepted \subseteq Users
  BY DEF Granted, Accepted
<1> QED
  BY <1>1, <1>2, <1>3, <1>4 DEF Access!Init, Granted, Signed, Accepted

\* The protocol keeps the promise of BoardAccess: denial is one local step, and
\* access comes back only after the acceptance was seen, with no denial since.
THEOREM BoardAccessImplemented == Spec => ImplementsBoardAccess
<1>1. Init => ReconcilersGrant
  BY DEF Init, ReconcilersGrant, Running, Workers
<1>2. Inv /\ ReconcilersGrant /\ [Next]_vars => Inv' /\ ReconcilersGrant'
  BY StepInv, ReconcilersGrantStep DEF Inv
<1>3. Inv /\ Inv' /\ ReconcilersGrant /\ [Next]_vars => [Access!Next]_(Access!vars)
  BY AccessStep
<1> QED
  BY <1>1, <1>2, <1>3, InitInv, AccessInit, PTL DEF Spec, Access!Spec, ImplementsBoardAccess

=============================================================================
