------------------------ MODULE RegistrationDecision ------------------------
(***************************************************************************)
(* Registration by approval.  An applicant enrols in Authentik, where the  *)
(* identity waits in the pending group; an intake call (or an adoption by  *)
(* an administrator, when that call was lost) gives it a row in the Board  *)
(* database; an administrator approves or rejects the row in three phases: *)
(* commit an intent, change the groups outside any transaction, commit the *)
(* decision.  The login callback lets nobody in whose row is not approved. *)
(*                                                                         *)
(* The row remembers the id of the request that committed the intent, and  *)
(* a call with the same id resumes it.  ReuseIds says who makes the ids:   *)
(* TRUE, a caller that repeats the id of a call it retries; FALSE, the     *)
(* HTTP handler, whose middleware generates a new id for every request.    *)
(***************************************************************************)
EXTENDS Naturals

CONSTANTS
    Applicants,      \* Authentik identities that register
    Administrators,  \* accounts whose role is administrator
    Calls,           \* slots for calls that run concurrently
    Ids,             \* request ids; an id nobody holds any more is fresh again
    NoId,            \* transition_request_id IS NULL
    ReuseIds,        \* whether a retry may carry the id of the call it retries
    MaxRevision,     \* largest administration revision (2^63 - 1 in the code)
    MaxFailures,     \* bound: remote calls that may fail
    MaxInterrupts    \* bound: calls that may be lost, and authorities changed

ASSUME IdsAssumption == NoId \notin Ids /\ ReuseIds \in BOOLEAN
ASSUME BoundsAssumption ==
    MaxRevision \in Nat \ {0} /\ MaxFailures \in Nat /\ MaxInterrupts \in Nat

VARIABLES
    status,      \* pending_registrations.status; "absent" while there is no row
    revision,    \* pending_registrations.administration_revision
    request,     \* pending_registrations.transition_request_id
    account,     \* whether the applicant has a forum account
    groups,      \* the Authentik groups of the identity
    authorized,  \* the administrators that are accepted and not suspended
    call,        \* what each slot is doing
    failures, interrupts  \* consumed parts of the bounds

row == <<status, revision, request>>
vars == <<row, account, groups, authorized, call, failures, interrupts>>

Decisions == {"approve", "reject"}
Required(d) == IF d = "approve" THEN "approval_required" ELSE "rejection_required"
Terminal(d) == IF d = "approve" THEN "approved" ELSE "rejected"
RequiredStatuses == {Required(d) : d \in Decisions}
TerminalStatuses == {Terminal(d) : d \in Decisions}

Idle == [phase |-> "idle"]
DecisionCalls ==
    [phase     : {"begin", "remote", "record", "complete"},
     applicant : Applicants,
     decision  : Decisions,
     actor     : Administrators,
     id        : Ids,
     revision  : Nat,  \* the form's until the intent commits, then the row's
     step      : 1..3]
AdoptionCalls == [phase : {"fetch", "insert"}, applicant : Applicants, actor : Administrators]

TypeOK ==
    /\ status \in [Applicants ->
                     {"absent", "pending"} \cup RequiredStatuses \cup TerminalStatuses]
    /\ revision \in [Applicants -> 0..MaxRevision]
    /\ request \in [Applicants -> Ids \cup {NoId}]
    /\ account \in [Applicants -> BOOLEAN]
    /\ groups \in [Applicants -> SUBSET {"accepted", "pending"}]
    /\ authorized \subseteq Administrators
    /\ call \in [Calls -> DecisionCalls \cup AdoptionCalls \cup {Idle}]
    /\ failures \in 0..MaxFailures
    /\ interrupts \in 0..MaxInterrupts

Init ==
    /\ status = [p \in Applicants |-> "absent"]
    /\ revision = [p \in Applicants |-> 0]
    /\ request = [p \in Applicants |-> NoId]
    /\ account = [p \in Applicants |-> FALSE]
    /\ groups = [p \in Applicants |-> {}]
    /\ authorized = Administrators
    /\ call = [c \in Calls |-> Idle]
    /\ failures = 0 /\ interrupts = 0

-----------------------------------------------------------------------------
(* Enrolment, intake, and the login callback. *)

\* Authentik puts an identity in the pending group when registration is by
\* approval, and accepts it at once when registration is open or invited.
Enrol(p) ==
    /\ groups[p] = {} /\ status[p] = "absent"
    /\ \E g \in {"pending", "accepted"} : groups' = [groups EXCEPT ![p] = {g}]
    /\ UNCHANGED <<row, account, authorized, call, failures, interrupts>>

InsertPendingRow(p) ==
    /\ status' = [status EXCEPT ![p] = "pending"]
    /\ revision' = [revision EXCEPT ![p] = 1]
    /\ request' = [request EXCEPT ![p] = NoId]

\* Mutation of the intake: the conflict clause also updates a decided row.
IntakeReopening(p) ==
    /\ "pending" \in groups[p] \/ status[p] # "absent"
    /\ InsertPendingRow(p)
    /\ UNCHANGED <<account, groups, authorized, call, failures, interrupts>>

\* The intake of the approval flow may be lost, repeated or delayed; it never
\* touches the status of a row that is there.
UpsertPendingRegistrationIntake(p) ==
    /\ "pending" \in groups[p]
    /\ status[p] = "absent"
    /\ InsertPendingRow(p)
    /\ UNCHANGED <<account, groups, authorized, call, failures, interrupts>>

\* Mutation of the login gate: only a rejected registration is turned away.
LoginUnlessRejected(p) ==
    /\ "accepted" \in groups[p]
    /\ status[p] # "rejected"
    /\ ~account[p]
    /\ account' = [account EXCEPT ![p] = TRUE]
    /\ UNCHANGED <<row, groups, authorized, call, failures, interrupts>>

\* Authentik lets an accepted identity through; the callback makes the account.
CreateInitialSession(p) ==
    /\ "accepted" \in groups[p]
    /\ status[p] \in {"absent", "approved"}
    /\ ~account[p]
    /\ account' = [account EXCEPT ![p] = TRUE]
    /\ UNCHANGED <<row, groups, authorized, call, failures, interrupts>>

-----------------------------------------------------------------------------
(* Adoption of an identity that is pending in Authentik and has no row. *)

StartAdoption(c, a, p) ==
    /\ call[c] = Idle
    /\ a \in authorized
    /\ status[p] = "absent" /\ groups[p] = {"pending"}  \* the signed handle
    /\ call' = [call EXCEPT ![c] = [phase |-> "fetch", applicant |-> p, actor |-> a]]
    /\ UNCHANGED <<row, account, groups, authorized, failures, interrupts>>

FetchPendingIdentity(c) ==
    /\ call[c].phase = "fetch"
    /\ call' = [call EXCEPT ![c] =
                  IF groups[call[c].applicant] = {"pending"}
                    THEN [@ EXCEPT !.phase = "insert"] ELSE Idle]
    /\ UNCHANGED <<row, account, groups, authorized, failures, interrupts>>

\* Mutation of the adoption: it takes over a row that is there.
AdoptOverwriting(c) ==
    /\ call[c].phase = "insert"
    /\ call' = [call EXCEPT ![c] = Idle]
    /\ IF call[c].actor \in authorized
         THEN InsertPendingRow(call[c].applicant)
         ELSE UNCHANGED row
    /\ UNCHANGED <<account, groups, authorized, failures, interrupts>>

\* A row that is there stays as it is, whether it is still pending (success)
\* or no longer (a conflict).
InsertOrLoadPendingRegistrationAdoption(c) ==
    /\ call[c].phase = "insert"
    /\ call' = [call EXCEPT ![c] = Idle]
    /\ IF call[c].actor \in authorized /\ status[call[c].applicant] = "absent"
         THEN InsertPendingRow(call[c].applicant)
         ELSE UNCHANGED row
    /\ UNCHANGED <<account, groups, authorized, failures, interrupts>>

-----------------------------------------------------------------------------
(* Decisions. *)

\* An id somebody still holds.
LiveIds ==
    {request[p] : p \in Applicants} \cup
    {call[c].id : c \in {c \in Calls : call[c] # Idle /\ "id" \in DOMAIN call[c]}}

\* The form was rendered from the row as it is now, and arrives later.
SubmitDecision(c, a, p, d) ==
    /\ call[c] = Idle
    /\ status[p] \in {"pending"} \cup RequiredStatuses
    /\ \E id \in (Ids \ LiveIds) \cup (IF ReuseIds THEN {request[p]} \ {NoId} ELSE {}) :
         call' = [call EXCEPT ![c] =
                    [phase |-> "begin", applicant |-> p, decision |-> d, actor |-> a,
                     id |-> id, revision |-> revision[p], step |-> 1]]
    /\ UNCHANGED <<row, account, groups, authorized, failures, interrupts>>

Ends(c) == call' = [call EXCEPT ![c] = Idle]

HoldsRequired(t) == status[t.applicant] = Required(t.decision) /\ request[t.applicant] = t.id
IsComplete(t) == status[t.applicant] = Terminal(t.decision) /\ request[t.applicant] = t.id

MayBegin(t) ==
    /\ status[t.applicant] = "pending"
    /\ revision[t.applicant] = t.revision
    /\ revision[t.applicant] < MaxRevision

\* Mutation of the first transaction: any undecided row may be begun again.
BeginOvertaking(c) ==
    LET t == call[c]
        p == t.applicant IN
    /\ t.phase = "begin"
    /\ IF t.actor \in authorized /\ status[p] \notin TerminalStatuses /\ revision[p] < MaxRevision
         THEN /\ status' = [status EXCEPT ![p] = Required(t.decision)]
              /\ revision' = [revision EXCEPT ![p] = @ + 1]
              /\ request' = [request EXCEPT ![p] = t.id]
              /\ call' = [call EXCEPT ![c].phase = "remote", ![c].revision = revision[p] + 1]
         ELSE Ends(c) /\ UNCHANGED row
    /\ UNCHANGED <<account, groups, authorized, failures, interrupts>>

\* The first transaction: resume the row of the same id, commit the intent,
\* or end (complete already, a conflict, or no authority).
BeginPendingRegistrationDecision(c) ==
    LET t == call[c]
        p == t.applicant IN
    /\ t.phase = "begin"
    /\ \/ /\ t.actor \in authorized /\ HoldsRequired(t)
          /\ call' = [call EXCEPT ![c].phase = "remote", ![c].revision = revision[p]]
          /\ UNCHANGED row
       \/ /\ t.actor \in authorized /\ MayBegin(t)
          /\ status' = [status EXCEPT ![p] = Required(t.decision)]
          /\ revision' = [revision EXCEPT ![p] = @ + 1]
          /\ request' = [request EXCEPT ![p] = t.id]
          /\ call' = [call EXCEPT ![c].phase = "remote", ![c].revision = revision[p] + 1]
       \/ /\ t.actor \notin authorized \/ ~(HoldsRequired(t) \/ MayBegin(t))
          /\ Ends(c) /\ UNCHANGED row
    /\ UNCHANGED <<account, groups, authorized, failures, interrupts>>

RemoteEffect(t, current) ==
    CASE t.step = 1 /\ t.decision = "approve" -> current \cup {"accepted"}
      [] t.step = 1 /\ t.decision = "reject"  -> current \ {"accepted"}
      [] t.step = 2                           -> current \ {"pending"}

Verified(t, current) ==
    /\ "pending" \notin current
    /\ ("accepted" \in current) <=> (t.decision = "approve")

RemoteCall(c) ==
    LET t == call[c] IN
    /\ t.phase = "remote" /\ t.step < 3
    /\ groups' = [groups EXCEPT ![t.applicant] = RemoteEffect(t, @)]
    /\ call' = [call EXCEPT ![c].step = @ + 1]
    /\ UNCHANGED <<row, account, authorized, failures, interrupts>>

\* Mutation of RemoteVerify: the first acknowledged change is taken for all.
RemoteVerifyEarly(c) ==
    /\ call[c].phase = "remote" /\ call[c].step > 1
    /\ call' = [call EXCEPT ![c].phase = "complete"]
    /\ UNCHANGED <<row, account, groups, authorized, failures, interrupts>>

RemoteVerify(c) ==
    LET t == call[c] IN
    /\ t.phase = "remote" /\ t.step = 3
    /\ call' = [call EXCEPT ![c].phase =
                  IF Verified(t, groups[t.applicant]) THEN "complete" ELSE "record"]
    /\ UNCHANGED <<row, account, groups, authorized, failures, interrupts>>

\* A refused call, or a timeout that leaves the change made or not.
RemoteFailure(c) ==
    LET t == call[c] IN
    /\ t.phase = "remote"
    /\ failures < MaxFailures
    /\ failures' = failures + 1
    /\ \/ UNCHANGED groups
       \/ t.step < 3 /\ groups' = [groups EXCEPT ![t.applicant] = RemoteEffect(t, @)]
    /\ call' = [call EXCEPT ![c].phase = "record"]
    /\ UNCHANGED <<row, account, authorized, interrupts>>

\* Mutation of the failure record: the id that would resume the intent is
\* cleared.
RecordForgettingRequest(c) ==
    LET t == call[c] IN
    /\ t.phase = "record"
    /\ Ends(c)
    /\ revision' = [revision EXCEPT ![t.applicant] = @ + 1]
    /\ request' = [request EXCEPT ![t.applicant] = NoId]
    /\ UNCHANGED <<status, account, groups, authorized, failures, interrupts>>

\* The failure is recorded for the intent, whoever is authorized by now.
RecordPendingRegistrationDecisionFailure(c) ==
    LET t == call[c] IN
    /\ t.phase = "record"
    /\ Ends(c)
    /\ IF HoldsRequired(t) /\ revision[t.applicant] = t.revision /\ t.revision < MaxRevision
         THEN revision' = [revision EXCEPT ![t.applicant] = @ + 1]
         ELSE UNCHANGED revision
    /\ UNCHANGED <<status, request, account, groups, authorized, failures, interrupts>>

\* The last transaction.  Another call of the same id may have completed.
CompletePendingRegistrationDecision(c) ==
    LET t == call[c]
        p == t.applicant IN
    /\ t.phase = "complete"
    /\ Ends(c)
    /\ IF /\ t.actor \in authorized
          /\ ~IsComplete(t)
          /\ HoldsRequired(t) /\ revision[p] = t.revision /\ t.revision < MaxRevision
         THEN /\ status' = [status EXCEPT ![p] = Terminal(t.decision)]
              /\ revision' = [revision EXCEPT ![p] = @ + 1]
         ELSE UNCHANGED <<status, revision>>
    /\ UNCHANGED <<request, account, groups, authorized, failures, interrupts>>

-----------------------------------------------------------------------------
(* Lost work and changes of authority. *)

Interrupt(c) ==
    /\ call[c] # Idle
    /\ interrupts < MaxInterrupts
    /\ interrupts' = interrupts + 1
    /\ Ends(c)
    /\ UNCHANGED <<row, account, groups, authorized, failures>>

\* An administrator is suspended; one always remains.
LoseAuthority(a) ==
    /\ a \in authorized /\ authorized # {a}
    /\ interrupts < MaxInterrupts
    /\ interrupts' = interrupts + 1
    /\ authorized' = authorized \ {a}
    /\ UNCHANGED <<row, account, groups, call, failures>>

-----------------------------------------------------------------------------
CallStep(c) ==
    \/ FetchPendingIdentity(c)
    \/ InsertOrLoadPendingRegistrationAdoption(c)
    \/ BeginPendingRegistrationDecision(c)
    \/ RemoteCall(c)
    \/ RemoteVerify(c)
    \/ RecordPendingRegistrationDecisionFailure(c)
    \/ CompletePendingRegistrationDecision(c)

Next ==
    \/ \E p \in Applicants : \/ Enrol(p)
                             \/ UpsertPendingRegistrationIntake(p)
                             \/ CreateInitialSession(p)
    \/ \E c \in Calls : \/ CallStep(c) \/ RemoteFailure(c) \/ Interrupt(c)
                        \/ \E a \in Administrators, p \in Applicants :
                             \/ StartAdoption(c, a, p)
                             \/ \E d \in Decisions : SubmitDecision(c, a, p, d)
    \/ \E a \in Administrators : LoseAuthority(a)

Spec == Init /\ [][Next]_vars

\* The decision that a required row is waiting for, asked for again: with
\* the id of the first request if the caller can repeat it.
RetryDecision(p) ==
    \E c \in Calls, a \in authorized, d \in Decisions :
        /\ status[p] = Required(d)
        /\ SubmitDecision(c, a, p, d)
        /\ ReuseIds => call'[c].id = request[p]

\* A handler that has begun keeps running, and the administrators, who see
\* the required row in their list, keep asking for what it waits for.
Fairness ==
    /\ \A c \in Calls : WF_vars(CallStep(c))
    /\ \A p \in Applicants : SF_vars(RetryDecision(p))

FairSpec == Spec /\ Fairness

-----------------------------------------------------------------------------
(* What registration guarantees. *)

\* An account whose applicant has a registration row was approved: the time
\* between the remote grant and the completing transaction, and every
\* intermediate status, is closed by the gate of the login callback.
AccountIsApproved ==
    \A p \in Applicants : account[p] /\ status[p] # "absent" => status[p] = "approved"

\* A decision that is complete is what Authentik holds, whatever calls of the
\* same request are still running or failed before.
DecisionIsRemote ==
    \A p \in Applicants :
        /\ status[p] = "approved" => groups[p] = {"accepted"}
        /\ status[p] = "rejected" => groups[p] = {}

\* No later intake, adoption or decision of any call reverses an intent or a
\* decision: a row moves from pending to required to the matching terminal
\* status and stays there, under the id that committed the intent.
DecisionIsNeverOvertaken ==
    [][\A p \in Applicants :
         /\ status[p] \in TerminalStatuses => UNCHANGED <<status[p], revision[p], request[p]>>
         /\ \A d \in Decisions : status[p] = Required(d) =>
              /\ status'[p] \in {Required(d), Terminal(d)}
              /\ request'[p] = request[p]]_vars

\* implementation-spec.md: a retry of an unknown outcome completes
\* idempotently.  A committed intent ends in its decision when failures stop
\* and the administrators keep retrying it, unless the failures have used up
\* the revisions (2^63 of them in the code).
IntentConverges ==
    \A p \in Applicants :
        status[p] \in RequiredStatuses
          ~> status[p] \in TerminalStatuses \/ revision[p] = MaxRevision

=============================================================================
