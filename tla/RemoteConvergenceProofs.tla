---------------------- MODULE RemoteConvergenceProofs ----------------------
(***************************************************************************)
(* Proofs about RegistrationDecision and about Invitations, for every      *)
(* number of applicants, administrators, keys and calls, and about both in *)
(* the behaviours of MCRemoteConvergence, with the types that              *)
(* IdentityReconciliationProofs proves of a suspension.                    *)
(*                                                                         *)
(* A decision is a matter of the row: a call that has committed or resumed *)
(* an intent finds the row under its decision and its id until the end, so *)
(* that all calls of one row push the groups the same way; and while there *)
(* is no row the groups are what enrolment made them, so that an account   *)
(* which is older than its row is an accepted one.                         *)
(*                                                                         *)
(* That a token leaves once is a matter of counting: a call that may still *)
(* make an invitation, mail it or show it is one of finitely many, and     *)
(* every generation has one maker.  That only what the Board deleted is    *)
(* called revoked is a matter of generations: a number that was deleted is *)
(* never live again, and was not consumed before.                          *)
(***************************************************************************)
EXTENDS MCRemoteConvergence, FiniteSetTheorems, TLAPS

Moderated == INSTANCE IdentityReconciliationProofs
    WITH Administrators <- {a1}, MaxRevision <- 20, MaxFailures <- 1,
         revision <- idRevision, groups <- idGroups,
         failures <- idFailures, interrupts <- idInterrupts

USE DEF row

-----------------------------------------------------------------------------
(* RegistrationDecision: the inductive invariant. *)

\* A call past its first transaction works for the intent of its row.
IntentKept ==
    \A c \in Calls :
      call[c].phase \in {"remote", "record", "complete"} => HoldsRequired(call[c]) \/ IsComplete(call[c])

\* What a call has verified stays so.
VerifiedKept ==
    \A c \in Calls : call[c].phase = "complete" => Verified(call[c], groups[call[c].applicant])

\* Before there is a row the groups are those of the enrolment; an account and
\* an adoption that was checked know which.
EnrolmentKept ==
    /\ \A p \in Applicants : status[p] = "absent" =>
         /\ groups[p] \in {{}, {"pending"}, {"accepted"}}
         /\ account[p] => groups[p] = {"accepted"}
    /\ \A c \in Calls :
         call[c].phase = "insert" /\ status[call[c].applicant] = "absent"
         => groups[call[c].applicant] = {"pending"}

IInv ==
    /\ TypeOK /\ IntentKept /\ VerifiedKept /\ EnrolmentKept
    /\ DecisionIsRemote /\ AccountIsApproved

-----------------------------------------------------------------------------
(* Types. *)

DecisionPhases == {"begin", "remote", "record", "complete"}

LEMMA CallType ==
    ASSUME TypeOK, NEW c \in Calls
    PROVE  /\ call[c].phase \in DecisionPhases => call[c] \in DecisionCalls
           /\ call[c].phase \in {"fetch", "insert"} => call[c] \in AdoptionCalls
           /\ call[c].phase \in DecisionPhases \cup {"fetch", "insert", "idle"}
  BY DEF TypeOK, DecisionPhases, DecisionCalls, AdoptionCalls, Idle

LEMMA CallSet ==
    ASSUME TypeOK, NEW c \in Calls, NEW x \in DecisionCalls \cup AdoptionCalls \cup {Idle},
           call' = [call EXCEPT ![c] = x]
    PROVE  call' \in [Calls -> DecisionCalls \cup AdoptionCalls \cup {Idle}]
  BY DEF TypeOK

LEMMA EndType ==
    ASSUME TypeOK, NEW c \in Calls, call' = [call EXCEPT ![c] = Idle]
    PROVE  call' \in [Calls -> DecisionCalls \cup AdoptionCalls \cup {Idle}]
  BY CallSet

\* A decision's call that goes on to another phase.
LEMMA PhaseType ==
    ASSUME TypeOK, NEW c \in Calls, call[c] \in DecisionCalls, NEW f \in DecisionPhases, NEW n \in Nat,
           \/ call' = [call EXCEPT ![c].phase = f]
           \/ call' = [call EXCEPT ![c].phase = f, ![c].revision = n]
    PROVE  call' \in [Calls -> DecisionCalls \cup AdoptionCalls \cup {Idle}]
<1>1. [call[c] EXCEPT !.phase = f] \in DecisionCalls
  BY DEF DecisionCalls, DecisionPhases
<1>2. [call[c] EXCEPT !.phase = f, !.revision = n] \in DecisionCalls
  BY DEF DecisionCalls, DecisionPhases
<1>3. \/ call' = [call EXCEPT ![c] = [call[c] EXCEPT !.phase = f]]
      \/ call' = [call EXCEPT ![c] = [call[c] EXCEPT !.phase = f, !.revision = n]]
  BY DEF TypeOK, DecisionCalls
<1> QED BY <1>1, <1>2, <1>3, CallSet

LEMMA EffectType ==
    ASSUME NEW t \in DecisionCalls, t.step \in {1, 2}, NEW g \in SUBSET {"accepted", "pending"}
    PROVE  RemoteEffect(t, g) \in SUBSET {"accepted", "pending"}
  BY DEF RemoteEffect, DecisionCalls, Decisions

LEMMA StatusType ==
    ASSUME NEW d \in Decisions
    PROVE  /\ Required(d) \in RequiredStatuses /\ Terminal(d) \in TerminalStatuses
           /\ Required(d) \in {"approval_required", "rejection_required"}
           /\ Terminal(d) \in {"approved", "rejected"}
  BY DEF Required, Terminal, RequiredStatuses, TerminalStatuses, Decisions

LEMMA RowsType ==
    ASSUME TypeOK, [Next]_vars
    PROVE  /\ status' \in [Applicants ->
                     {"absent", "pending"} \cup RequiredStatuses \cup TerminalStatuses]
           /\ revision' \in [Applicants -> 0..MaxRevision]
           /\ request' \in [Applicants -> Ids \cup {NoId}]
<1> DEFINE Goal ==
      /\ status' \in [Applicants -> {"absent", "pending"} \cup RequiredStatuses \cup TerminalStatuses]
      /\ revision' \in [Applicants -> 0..MaxRevision]
      /\ request' \in [Applicants -> Ids \cup {NoId}]
<1>1. CASE UNCHANGED row
  BY <1>1 DEF TypeOK
<1>2. ASSUME NEW p \in Applicants, InsertPendingRow(p) PROVE Goal
  BY <1>2, BoundsAssumption DEF InsertPendingRow, TypeOK
<1>3. ASSUME NEW c \in Calls, InsertOrLoadPendingRegistrationAdoption(c) PROVE Goal
  <2>1. call[c].applicant \in Applicants
    BY <1>3, CallType DEF InsertOrLoadPendingRegistrationAdoption, AdoptionCalls
  <2> QED BY <1>1, <1>2, <1>3, <2>1 DEF InsertOrLoadPendingRegistrationAdoption
<1>4. ASSUME NEW c \in Calls, BeginPendingRegistrationDecision(c) PROVE Goal
  <2> DEFINE t == call[c]
  <2>1. t \in DecisionCalls
    BY <1>4, CallType DEF BeginPendingRegistrationDecision, DecisionPhases
  <2>2. t.applicant \in Applicants /\ t.id \in Ids /\ Required(t.decision) \in RequiredStatuses
    BY <2>1, StatusType DEF DecisionCalls
  <2>3. CASE /\ MayBegin(t)
             /\ status' = [status EXCEPT ![t.applicant] = Required(t.decision)]
             /\ revision' = [revision EXCEPT ![t.applicant] = @ + 1]
             /\ request' = [request EXCEPT ![t.applicant] = t.id]
    <3>1. revision[t.applicant] + 1 \in 0..MaxRevision
      BY <2>2, <2>3, BoundsAssumption DEF MayBegin, TypeOK
    <3> HIDE DEF t
    <3> QED BY <2>2, <2>3, <3>1 DEF TypeOK
  <2> QED BY <1>1, <1>4, <2>3 DEF BeginPendingRegistrationDecision
<1>5. ASSUME NEW c \in Calls, RecordPendingRegistrationDecisionFailure(c) PROVE Goal
  <2> DEFINE t == call[c]
  <2>1. t \in DecisionCalls
    BY <1>5, CallType DEF RecordPendingRegistrationDecisionFailure, DecisionPhases
  <2>2. t.applicant \in Applicants /\ t.revision \in Nat
    BY <2>1 DEF DecisionCalls
  <2>3. CASE /\ revision[t.applicant] = t.revision /\ t.revision < MaxRevision
             /\ revision' = [revision EXCEPT ![t.applicant] = @ + 1]
    <3>1. revision[t.applicant] + 1 \in 0..MaxRevision
      BY <2>2, <2>3, BoundsAssumption DEF TypeOK
    <3> HIDE DEF t
    <3> QED BY <1>5, <2>2, <2>3, <3>1 DEF TypeOK, RecordPendingRegistrationDecisionFailure
  <2> QED BY <1>1, <1>5, <2>3 DEF RecordPendingRegistrationDecisionFailure
<1>6. ASSUME NEW c \in Calls, CompletePendingRegistrationDecision(c) PROVE Goal
  <2> DEFINE t == call[c]
  <2>1. t \in DecisionCalls
    BY <1>6, CallType DEF CompletePendingRegistrationDecision, DecisionPhases
  <2>2. t.applicant \in Applicants /\ t.revision \in Nat /\ Terminal(t.decision) \in TerminalStatuses
    BY <2>1, StatusType DEF DecisionCalls
  <2>3. CASE /\ revision[t.applicant] = t.revision /\ t.revision < MaxRevision
             /\ status' = [status EXCEPT ![t.applicant] = Terminal(t.decision)]
             /\ revision' = [revision EXCEPT ![t.applicant] = @ + 1]
    <3>1. revision[t.applicant] + 1 \in 0..MaxRevision
      BY <2>2, <2>3, BoundsAssumption DEF TypeOK
    <3> HIDE DEF t
    <3> QED BY <1>6, <2>2, <2>3, <3>1 DEF TypeOK, CompletePendingRegistrationDecision
  <2> QED BY <1>1, <1>6, <2>3 DEF CompletePendingRegistrationDecision
<1> QED BY <1>1, <1>2, <1>3, <1>4, <1>5, <1>6
        DEF Next, vars, CallStep, Enrol, UpsertPendingRegistrationIntake, CreateInitialSession,
            StartAdoption, FetchPendingIdentity, SubmitDecision, RemoteCall, RemoteVerify,
            RemoteFailure, Interrupt, LoseAuthority

-----------------------------------------------------------------------------
(* What a step can do to one row, one identity's groups and one call. *)

LEMMA RowMoves ==
    ASSUME TypeOK, EnrolmentKept, [Next]_vars, NEW p \in Applicants
    PROVE  \/ /\ status'[p] = status[p] /\ request'[p] = request[p]
              /\ status[p] \in TerminalStatuses => revision'[p] = revision[p]
           \/ /\ status[p] = "absent" /\ status'[p] = "pending" /\ "pending" \in groups[p]
              /\ UNCHANGED <<account, groups>>
           \/ /\ status[p] = "pending" /\ UNCHANGED <<account, groups>>
              /\ \E d \in Decisions : status'[p] = Required(d)
           \/ \E c \in Calls :
                /\ call[c] \in DecisionCalls /\ call[c].phase = "complete" /\ call[c].applicant = p
                /\ status[p] = Required(call[c].decision) /\ status'[p] = Terminal(call[c].decision)
                /\ request'[p] = request[p] /\ UNCHANGED <<account, groups>>
<1> DEFINE Goal ==
      \/ /\ status'[p] = status[p] /\ request'[p] = request[p]
         /\ status[p] \in TerminalStatuses => revision'[p] = revision[p]
      \/ /\ status[p] = "absent" /\ status'[p] = "pending" /\ "pending" \in groups[p]
         /\ UNCHANGED <<account, groups>>
      \/ /\ status[p] = "pending" /\ UNCHANGED <<account, groups>>
         /\ \E d \in Decisions : status'[p] = Required(d)
      \/ \E c \in Calls :
           /\ call[c] \in DecisionCalls /\ call[c].phase = "complete" /\ call[c].applicant = p
           /\ status[p] = Required(call[c].decision) /\ status'[p] = Terminal(call[c].decision)
           /\ request'[p] = request[p] /\ UNCHANGED <<account, groups>>
<1>1. CASE UNCHANGED row
  BY <1>1
<1>2. ASSUME NEW q \in Applicants, UpsertPendingRegistrationIntake(q) PROVE Goal
  BY <1>2 DEF UpsertPendingRegistrationIntake, InsertPendingRow, TypeOK
<1>3. ASSUME NEW c \in Calls, InsertOrLoadPendingRegistrationAdoption(c) PROVE Goal
  <2>1. call[c].applicant \in Applicants
    BY <1>3, CallType DEF InsertOrLoadPendingRegistrationAdoption, AdoptionCalls
  <2>2. CASE status[call[c].applicant] = "absent" /\ InsertPendingRow(call[c].applicant)
    <3>1. "pending" \in groups[call[c].applicant]
      BY <1>3, <2>2 DEF InsertOrLoadPendingRegistrationAdoption, EnrolmentKept
    <3> QED BY <1>3, <2>1, <2>2, <3>1
            DEF InsertOrLoadPendingRegistrationAdoption, InsertPendingRow, TypeOK
  <2> QED BY <1>1, <1>3, <2>2 DEF InsertOrLoadPendingRegistrationAdoption
<1>4. ASSUME NEW c \in Calls, BeginPendingRegistrationDecision(c) PROVE Goal
  <2>1. call[c].applicant \in Applicants /\ call[c].decision \in Decisions
    BY <1>4, CallType DEF BeginPendingRegistrationDecision, DecisionPhases, DecisionCalls
  <2> QED BY <1>1, <1>4, <2>1 DEF BeginPendingRegistrationDecision, MayBegin, TypeOK
<1>5. ASSUME NEW c \in Calls, RecordPendingRegistrationDecisionFailure(c) PROVE Goal
  <2>1. call[c].applicant \in Applicants /\ call[c].decision \in Decisions
    BY <1>5, CallType DEF RecordPendingRegistrationDecisionFailure, DecisionPhases, DecisionCalls
  <2>2. CASE p = call[c].applicant /\ HoldsRequired(call[c])
    <3>1. status[p] \notin TerminalStatuses
      BY <2>1, <2>2 DEF HoldsRequired, Required, TerminalStatuses, Terminal, Decisions
    <3> QED BY <1>5, <3>1 DEF RecordPendingRegistrationDecisionFailure
  <2>3. revision'[p] = revision[p] \/ (p = call[c].applicant /\ HoldsRequired(call[c]))
    BY <1>5, <2>1 DEF RecordPendingRegistrationDecisionFailure, TypeOK
  <2> QED BY <1>5, <2>2, <2>3 DEF RecordPendingRegistrationDecisionFailure
<1>6. ASSUME NEW c \in Calls, CompletePendingRegistrationDecision(c) PROVE Goal
  <2>1. call[c] \in DecisionCalls /\ call[c].phase = "complete"
    BY <1>6, CallType DEF CompletePendingRegistrationDecision, DecisionPhases
  <2>2. call[c].applicant \in Applicants
    BY <2>1 DEF DecisionCalls
  <2>3. CASE p = call[c].applicant /\ HoldsRequired(call[c])
             /\ status' = [status EXCEPT ![call[c].applicant] = Terminal(call[c].decision)]
    <3>1. status'[p] = Terminal(call[c].decision)
      BY <2>2, <2>3 DEF TypeOK
    <3> QED BY <1>6, <2>1, <2>3, <3>1 DEF CompletePendingRegistrationDecision, HoldsRequired
  <2>4. CASE p # call[c].applicant \/ UNCHANGED <<status, revision>>
    BY <1>6, <2>2, <2>4 DEF CompletePendingRegistrationDecision, TypeOK
  <2> QED BY <1>6, <2>3, <2>4 DEF CompletePendingRegistrationDecision
<1> QED BY <1>1, <1>2, <1>3, <1>4, <1>5, <1>6
        DEF Next, vars, CallStep, Enrol, CreateInitialSession,
            StartAdoption, FetchPendingIdentity, SubmitDecision, RemoteCall, RemoteVerify,
            RemoteFailure, Interrupt, LoseAuthority

LEMMA GroupMoves ==
    ASSUME TypeOK, [Next]_vars, NEW p \in Applicants
    PROVE  \/ groups'[p] = groups[p]
           \/ /\ groups[p] = {} /\ status[p] = "absent" /\ groups'[p] \in {{"pending"}, {"accepted"}}
              /\ UNCHANGED <<row, account, call>>
           \/ \E c \in Calls :
                /\ call[c] \in DecisionCalls /\ call[c].phase = "remote" /\ call[c].step \in {1, 2}
                /\ call[c].applicant = p /\ groups'[p] = RemoteEffect(call[c], groups[p])
                /\ UNCHANGED <<row, account>>
<1> DEFINE Goal ==
      \/ groups'[p] = groups[p]
      \/ /\ groups[p] = {} /\ status[p] = "absent" /\ groups'[p] \in {{"pending"}, {"accepted"}}
         /\ UNCHANGED <<row, account, call>>
      \/ \E c \in Calls :
           /\ call[c] \in DecisionCalls /\ call[c].phase = "remote" /\ call[c].step \in {1, 2}
           /\ call[c].applicant = p /\ groups'[p] = RemoteEffect(call[c], groups[p])
           /\ UNCHANGED <<row, account>>
<1>1. CASE UNCHANGED groups
  BY <1>1
<1>2. ASSUME NEW q \in Applicants, Enrol(q) PROVE Goal
  BY <1>2 DEF Enrol, TypeOK
<1>3. ASSUME NEW c \in Calls, call[c].phase = "remote", call[c].step < 3, UNCHANGED <<row, account>>,
             groups' = [groups EXCEPT ![call[c].applicant] = RemoteEffect(call[c], @)]
      PROVE Goal
  <2>1. call[c] \in DecisionCalls
    BY <1>3, CallType DEF DecisionPhases
  <2>2. call[c].applicant \in Applicants /\ call[c].step \in {1, 2}
    BY <1>3, <2>1 DEF DecisionCalls
  <2>3. CASE p = call[c].applicant
    <3>1. groups'[p] = RemoteEffect(call[c], groups[p])
      BY <1>3, <2>2, <2>3 DEF TypeOK
    <3> QED BY <1>3, <2>1, <2>2, <2>3, <3>1
  <2>4. CASE p # call[c].applicant
    BY <1>3, <2>2, <2>4 DEF TypeOK
  <2> QED BY <2>3, <2>4
<1>4. ASSUME NEW c \in Calls, RemoteCall(c) PROVE Goal
  BY <1>3, <1>4 DEF RemoteCall
<1>5. ASSUME NEW c \in Calls, RemoteFailure(c) PROVE Goal
  BY <1>1, <1>3, <1>5 DEF RemoteFailure
<1> QED BY <1>1, <1>2, <1>4, <1>5
        DEF Next, vars, CallStep, UpsertPendingRegistrationIntake, CreateInitialSession,
            StartAdoption, FetchPendingIdentity, InsertOrLoadPendingRegistrationAdoption,
            SubmitDecision, BeginPendingRegistrationDecision, RemoteVerify,
            RecordPendingRegistrationDecisionFailure, CompletePendingRegistrationDecision,
            Interrupt, LoseAuthority

LEMMA AccountMoves ==
    ASSUME TypeOK, [Next]_vars, NEW p \in Applicants
    PROVE  \/ account'[p] = account[p]
           \/ /\ "accepted" \in groups[p] /\ status[p] \in {"absent", "approved"}
              /\ account'[p] = TRUE /\ UNCHANGED <<row, groups, call>>
<1>1. ASSUME NEW q \in Applicants, CreateInitialSession(q)
      PROVE  \/ account'[p] = account[p]
             \/ /\ "accepted" \in groups[p] /\ status[p] \in {"absent", "approved"}
                /\ account'[p] = TRUE /\ UNCHANGED <<row, groups, call>>
  BY <1>1 DEF CreateInitialSession, TypeOK
<1> QED BY <1>1, ZenonT(40)
        DEF Next, vars, CallStep, UpsertPendingRegistrationIntake, Enrol,
            StartAdoption, FetchPendingIdentity, InsertOrLoadPendingRegistrationAdoption,
            SubmitDecision, BeginPendingRegistrationDecision, RemoteCall, RemoteVerify, RemoteFailure,
            RecordPendingRegistrationDecisionFailure, CompletePendingRegistrationDecision,
            Interrupt, LoseAuthority

LEMMA CallMoves ==
    ASSUME TypeOK, [Next]_vars, NEW c \in Calls
    PROVE  \/ call'[c] = call[c]
           \/ call'[c].phase \in {"idle", "begin", "fetch"} /\ UNCHANGED groups
           \/ /\ call[c] \in AdoptionCalls /\ groups[call[c].applicant] = {"pending"}
              /\ call'[c] = [call[c] EXCEPT !.phase = "insert"] /\ UNCHANGED <<row, groups>>
           \/ /\ call[c] \in DecisionCalls /\ call'[c] \in DecisionCalls
              /\ call'[c].applicant = call[c].applicant /\ call'[c].decision = call[c].decision
              /\ call'[c].id = call[c].id
              /\ \/ /\ call'[c].phase = "remote"
                    /\ status'[call[c].applicant] = Required(call[c].decision)
                    /\ request'[call[c].applicant] = call[c].id
                 \/ /\ call[c].phase = "remote" /\ call'[c].phase \in {"remote", "record"}
                    /\ UNCHANGED row
                 \/ /\ call[c].phase = "remote" /\ call'[c].phase = "complete"
                    /\ Verified(call[c], groups[call[c].applicant]) /\ UNCHANGED <<row, groups>>
<1> DEFINE Goal ==
      \/ call'[c] = call[c]
      \/ call'[c].phase \in {"idle", "begin", "fetch"} /\ UNCHANGED groups
      \/ /\ call[c] \in AdoptionCalls /\ groups[call[c].applicant] = {"pending"}
         /\ call'[c] = [call[c] EXCEPT !.phase = "insert"] /\ UNCHANGED <<row, groups>>
      \/ /\ call[c] \in DecisionCalls /\ call'[c] \in DecisionCalls
         /\ call'[c].applicant = call[c].applicant /\ call'[c].decision = call[c].decision
         /\ call'[c].id = call[c].id
         /\ \/ /\ call'[c].phase = "remote"
               /\ status'[call[c].applicant] = Required(call[c].decision)
               /\ request'[call[c].applicant] = call[c].id
            \/ /\ call[c].phase = "remote" /\ call'[c].phase \in {"remote", "record"}
               /\ UNCHANGED row
            \/ /\ call[c].phase = "remote" /\ call'[c].phase = "complete"
               /\ Verified(call[c], groups[call[c].applicant]) /\ UNCHANGED <<row, groups>>
<1>1. CASE UNCHANGED call
  BY <1>1
<1>2. ASSUME NEW b \in Calls, call' = [call EXCEPT ![b] = Idle], UNCHANGED groups PROVE Goal
  BY <1>2 DEF TypeOK, Idle
<1>3. ASSUME NEW b \in Calls, NEW x, x.phase \in {"begin", "fetch"},
             call' = [call EXCEPT ![b] = x], UNCHANGED groups
      PROVE Goal
  BY <1>3 DEF TypeOK
<1>4. ASSUME NEW b \in Calls, FetchPendingIdentity(b) PROVE Goal
  <2>1. call[b] \in AdoptionCalls
    BY <1>4, CallType DEF FetchPendingIdentity
  <2>2. CASE groups[call[b].applicant] = {"pending"}
             /\ call' = [call EXCEPT ![b] = [call[b] EXCEPT !.phase = "insert"]]
    BY <1>4, <2>1, <2>2 DEF FetchPendingIdentity, TypeOK
  <2>3. CASE call' = [call EXCEPT ![b] = Idle]
    BY <1>2, <1>4, <2>3 DEF FetchPendingIdentity
  <2> QED BY <1>4, <2>2, <2>3 DEF FetchPendingIdentity
<1>5. ASSUME NEW b \in Calls, BeginPendingRegistrationDecision(b) PROVE Goal
  <2>1. call[b] \in DecisionCalls
    BY <1>5, CallType DEF BeginPendingRegistrationDecision, DecisionPhases
  <2>2. /\ call[b].applicant \in Applicants /\ revision[call[b].applicant] \in Nat
        /\ revision[call[b].applicant] + 1 \in Nat
    BY <2>1, BoundsAssumption DEF DecisionCalls, TypeOK
  <2>3. ASSUME NEW n \in Nat, call' = [call EXCEPT ![b].phase = "remote", ![b].revision = n],
               status'[call[b].applicant] = Required(call[b].decision),
               request'[call[b].applicant] = call[b].id
        PROVE Goal
    <3>1. call' = [call EXCEPT ![b] = [call[b] EXCEPT !.phase = "remote", !.revision = n]]
      BY <2>1, <2>3 DEF TypeOK, DecisionCalls
    <3>2. [call[b] EXCEPT !.phase = "remote", !.revision = n] \in DecisionCalls
      BY <2>1, <2>3 DEF DecisionCalls
    <3>3. CASE b = c
      <4> DEFINE x == [call[b] EXCEPT !.phase = "remote", !.revision = n]
      <4>1. x.applicant = call[b].applicant /\ x.decision = call[b].decision /\ x.id = call[b].id
            /\ x.phase = "remote"
        BY <2>1 DEF DecisionCalls
      <4>2. call'[c] = x
        BY <3>1, <3>3 DEF TypeOK
      <4> HIDE DEF x
      <4> QED BY <2>1, <2>3, <3>2, <3>3, <4>1, <4>2 DEF x
    <3>4. CASE b # c
      BY <3>1, <3>4 DEF TypeOK
    <3> QED BY <3>3, <3>4
  <2>4. CASE HoldsRequired(call[b]) /\ UNCHANGED row
             /\ call' = [call EXCEPT ![b].phase = "remote", ![b].revision = revision[call[b].applicant]]
    BY <2>2, <2>3, <2>4 DEF HoldsRequired
  <2>5. CASE /\ status' = [status EXCEPT ![call[b].applicant] = Required(call[b].decision)]
             /\ request' = [request EXCEPT ![call[b].applicant] = call[b].id]
             /\ call' = [call EXCEPT ![b].phase = "remote", ![b].revision = revision[call[b].applicant] + 1]
    <3>1. status'[call[b].applicant] = Required(call[b].decision) /\ request'[call[b].applicant] = call[b].id
      BY <2>2, <2>5 DEF TypeOK
    <3> QED BY <2>2, <2>3, <2>5, <3>1
  <2>6. CASE Ends(b)
    BY <1>2, <1>5, <2>6 DEF Ends, BeginPendingRegistrationDecision
  <2> QED BY <1>5, <2>4, <2>5, <2>6 DEF BeginPendingRegistrationDecision
<1>6. ASSUME NEW b \in Calls, call[b].phase = "remote", NEW x \in DecisionCalls,
             call' = [call EXCEPT ![b] = x], x.applicant = call[b].applicant,
             x.decision = call[b].decision, x.id = call[b].id, UNCHANGED row,
             \/ x.phase \in {"remote", "record"}
             \/ x.phase = "complete" /\ Verified(call[b], groups[call[b].applicant]) /\ UNCHANGED groups
      PROVE Goal
  <2>1. call[b] \in DecisionCalls
    BY <1>6, CallType DEF DecisionPhases
  <2>2. CASE b = c
    <3>1. call'[c] = x
      BY <1>6, <2>2 DEF TypeOK
    <3> QED BY <1>6, <2>1, <2>2, <3>1
  <2>3. CASE b # c
    BY <1>6, <2>3 DEF TypeOK
  <2> QED BY <2>2, <2>3
<1>7. ASSUME NEW b \in Calls, RemoteCall(b) PROVE Goal
  <2>1. call[b] \in DecisionCalls
    BY <1>7, CallType DEF RemoteCall, DecisionPhases
  <2> DEFINE x == [call[b] EXCEPT !.step = @ + 1]
  <2>2. x \in DecisionCalls /\ x.applicant = call[b].applicant /\ x.decision = call[b].decision
        /\ x.id = call[b].id /\ x.phase = "remote"
    BY <1>7, <2>1 DEF RemoteCall, DecisionCalls
  <2>3. call' = [call EXCEPT ![b] = x]
    BY <1>7, <2>1 DEF RemoteCall, TypeOK, DecisionCalls
  <2>4. call[b].phase = "remote" /\ UNCHANGED row
    BY <1>7 DEF RemoteCall
  <2> HIDE DEF x
  <2> QED BY <1>6, <2>2, <2>3, <2>4
<1>8. ASSUME NEW b \in Calls, RemoteVerify(b) PROVE Goal
  <2>1. call[b] \in DecisionCalls
    BY <1>8, CallType DEF RemoteVerify, DecisionPhases
  <2> DEFINE f == IF Verified(call[b], groups[call[b].applicant]) THEN "complete" ELSE "record"
             x == [call[b] EXCEPT !.phase = f]
  <2>2. x \in DecisionCalls /\ x.applicant = call[b].applicant /\ x.decision = call[b].decision
        /\ x.id = call[b].id /\ x.phase = f
    BY <2>1 DEF DecisionCalls
  <2>3. call' = [call EXCEPT ![b] = x]
    BY <1>8, <2>1 DEF RemoteVerify, TypeOK, DecisionCalls
  <2>4. call[b].phase = "remote" /\ UNCHANGED <<row, groups>>
    BY <1>8 DEF RemoteVerify
  <2> HIDE DEF x
  <2> QED BY <1>6, <2>2, <2>3, <2>4
<1>9. ASSUME NEW b \in Calls, RemoteFailure(b) PROVE Goal
  <2>1. call[b] \in DecisionCalls
    BY <1>9, CallType DEF RemoteFailure, DecisionPhases
  <2> DEFINE x == [call[b] EXCEPT !.phase = "record"]
  <2>2. x \in DecisionCalls /\ x.applicant = call[b].applicant /\ x.decision = call[b].decision
        /\ x.id = call[b].id /\ x.phase = "record"
    BY <2>1 DEF DecisionCalls
  <2>3. call' = [call EXCEPT ![b] = x]
    BY <1>9, <2>1 DEF RemoteFailure, TypeOK, DecisionCalls
  <2>4. call[b].phase = "remote" /\ UNCHANGED row
    BY <1>9 DEF RemoteFailure
  <2> HIDE DEF x
  <2> QED BY <1>6, <2>2, <2>3, <2>4
<1>10. ASSUME NEW b \in Calls, NEW a \in Administrators, NEW p \in Applicants,
              StartAdoption(b, a, p)
       PROVE Goal
  BY <1>3, <1>10 DEF StartAdoption
<1>11. ASSUME NEW b \in Calls, NEW a \in Administrators, NEW p \in Applicants, NEW d \in Decisions,
              SubmitDecision(b, a, p, d)
       PROVE Goal
  BY <1>3, <1>11 DEF SubmitDecision
<1>12. ASSUME NEW b \in Calls,
              \/ InsertOrLoadPendingRegistrationAdoption(b) \/ Interrupt(b)
              \/ RecordPendingRegistrationDecisionFailure(b) \/ CompletePendingRegistrationDecision(b)
       PROVE Goal
  BY <1>2, <1>12 DEF InsertOrLoadPendingRegistrationAdoption, Interrupt, Ends,
       RecordPendingRegistrationDecisionFailure, CompletePendingRegistrationDecision
<1> QED BY <1>1, <1>4, <1>5, <1>7, <1>8, <1>9, <1>10, <1>11, <1>12
        DEF Next, vars, CallStep, Enrol, UpsertPendingRegistrationIntake, CreateInitialSession,
            LoseAuthority

LEMMA CallsType ==
    ASSUME TypeOK, [Next]_vars
    PROVE  call' \in [Calls -> DecisionCalls \cup AdoptionCalls \cup {Idle}]
<1> DEFINE Goal == call' \in [Calls -> DecisionCalls \cup AdoptionCalls \cup {Idle}]
<1>1. CASE UNCHANGED call
  BY <1>1 DEF TypeOK
<1>2. ASSUME NEW c \in Calls, call' = [call EXCEPT ![c] = Idle] PROVE Goal
  BY <1>2, EndType
<1>3. ASSUME NEW c \in Calls, FetchPendingIdentity(c) PROVE Goal
  <2>1. call[c] \in AdoptionCalls
    BY <1>3, CallType DEF FetchPendingIdentity
  <2>2. [call[c] EXCEPT !.phase = "insert"] \in AdoptionCalls
    BY <2>1 DEF AdoptionCalls
  <2>3. CASE call' = [call EXCEPT ![c] = [call[c] EXCEPT !.phase = "insert"]]
    BY <2>2, <2>3, CallSet
  <2> QED BY <1>2, <1>3, <2>3 DEF FetchPendingIdentity, TypeOK
<1>4. ASSUME NEW c \in Calls, BeginPendingRegistrationDecision(c) PROVE Goal
  <2>1. call[c] \in DecisionCalls
    BY <1>4, CallType DEF BeginPendingRegistrationDecision, DecisionPhases
  <2>2. revision[call[c].applicant] \in Nat /\ revision[call[c].applicant] + 1 \in Nat
    BY <2>1, BoundsAssumption DEF DecisionCalls, TypeOK
  <2>3. CASE call' = [call EXCEPT ![c].phase = "remote", ![c].revision = revision[call[c].applicant]]
    BY <2>1, <2>2, <2>3, PhaseType DEF DecisionPhases
  <2>4. CASE call' = [call EXCEPT ![c].phase = "remote", ![c].revision = revision[call[c].applicant] + 1]
    BY <2>1, <2>2, <2>4, PhaseType DEF DecisionPhases
  <2> QED BY <1>2, <1>4, <2>3, <2>4 DEF BeginPendingRegistrationDecision, Ends
<1>5. ASSUME NEW c \in Calls, RemoteCall(c) PROVE Goal
  <2>1. call[c] \in DecisionCalls
    BY <1>5, CallType DEF RemoteCall, DecisionPhases
  <2>2. [call[c] EXCEPT !.step = @ + 1] \in DecisionCalls
    BY <1>5, <2>1 DEF RemoteCall, DecisionCalls
  <2>3. call' = [call EXCEPT ![c] = [call[c] EXCEPT !.step = @ + 1]]
    BY <1>5, <2>1 DEF RemoteCall, TypeOK, DecisionCalls
  <2> QED BY <2>2, <2>3, CallSet
<1>6. ASSUME NEW c \in Calls, RemoteVerify(c) PROVE Goal
  <2>1. call[c] \in DecisionCalls
    BY <1>6, CallType DEF RemoteVerify, DecisionPhases
  <2> DEFINE f == IF Verified(call[c], groups[call[c].applicant]) THEN "complete" ELSE "record"
  <2>2. f \in DecisionPhases
    BY DEF DecisionPhases
  <2>3. call' = [call EXCEPT ![c].phase = f]
    BY <1>6 DEF RemoteVerify
  <2> HIDE DEF f
  <2> QED BY <2>1, <2>2, <2>3, PhaseType
<1>7. ASSUME NEW c \in Calls, RemoteFailure(c) PROVE Goal
  <2>1. call[c] \in DecisionCalls
    BY <1>7, CallType DEF RemoteFailure, DecisionPhases
  <2> QED BY <1>7, <2>1, PhaseType DEF RemoteFailure, DecisionPhases
<1>8. ASSUME NEW c \in Calls, NEW a \in Administrators, NEW p \in Applicants, StartAdoption(c, a, p)
      PROVE Goal
  <2>1. [phase |-> "fetch", applicant |-> p, actor |-> a] \in AdoptionCalls
    BY DEF AdoptionCalls
  <2> QED BY <1>8, <2>1, CallSet DEF StartAdoption
<1>9. ASSUME NEW c \in Calls, NEW a \in Administrators, NEW p \in Applicants, NEW d \in Decisions,
             SubmitDecision(c, a, p, d)
      PROVE Goal
  <2>1. PICK id \in (Ids \ LiveIds) \cup (IF ReuseIds THEN {request[p]} \ {NoId} ELSE {}) :
          call' = [call EXCEPT ![c] =
                    [phase |-> "begin", applicant |-> p, decision |-> d, actor |-> a,
                     id |-> id, revision |-> revision[p], step |-> 1]]
    BY <1>9 DEF SubmitDecision
  <2>2. id \in Ids
    BY <2>1 DEF TypeOK
  <2>3. revision[p] \in Nat
    BY BoundsAssumption DEF TypeOK
  <2>4. [phase |-> "begin", applicant |-> p, decision |-> d, actor |-> a,
         id |-> id, revision |-> revision[p], step |-> 1] \in DecisionCalls
    BY <2>2, <2>3 DEF DecisionCalls
  <2> QED BY <2>1, <2>4, CallSet
<1> QED BY <1>1, <1>2, <1>3, <1>4, <1>5, <1>6, <1>7, <1>8, <1>9
        DEF Next, vars, CallStep, Enrol, UpsertPendingRegistrationIntake, CreateInitialSession,
            InsertOrLoadPendingRegistrationAdoption, RecordPendingRegistrationDecisionFailure,
            CompletePendingRegistrationDecision, Interrupt, Ends, LoseAuthority

LEMMA GroupsType ==
    ASSUME TypeOK, [Next]_vars
    PROVE  groups' \in [Applicants -> SUBSET {"accepted", "pending"}]
<1>1. CASE UNCHANGED groups
  BY <1>1 DEF TypeOK
<1>2. ASSUME NEW p \in Applicants, Enrol(p)
      PROVE  groups' \in [Applicants -> SUBSET {"accepted", "pending"}]
  BY <1>2 DEF Enrol, TypeOK
<1>3. ASSUME NEW c \in Calls, call[c].phase = "remote", call[c].step < 3,
             groups' = [groups EXCEPT ![call[c].applicant] = RemoteEffect(call[c], @)]
      PROVE  groups' \in [Applicants -> SUBSET {"accepted", "pending"}]
  <2>1. call[c] \in DecisionCalls
    BY <1>3, CallType DEF DecisionPhases
  <2>2. call[c].applicant \in Applicants /\ call[c].step \in {1, 2}
    BY <1>3, <2>1 DEF DecisionCalls
  <2>3. RemoteEffect(call[c], groups[call[c].applicant]) \in SUBSET {"accepted", "pending"}
    BY <2>1, <2>2, EffectType DEF TypeOK
  <2> QED BY <1>3, <2>2, <2>3 DEF TypeOK
<1>4. ASSUME NEW c \in Calls, RemoteCall(c)
      PROVE  groups' \in [Applicants -> SUBSET {"accepted", "pending"}]
  BY <1>3, <1>4 DEF RemoteCall
<1>5. ASSUME NEW c \in Calls, RemoteFailure(c)
      PROVE  groups' \in [Applicants -> SUBSET {"accepted", "pending"}]
  BY <1>1, <1>3, <1>5 DEF RemoteFailure
<1> QED BY <1>1, <1>2, <1>4, <1>5
        DEF Next, vars, CallStep, UpsertPendingRegistrationIntake, CreateInitialSession,
            StartAdoption, FetchPendingIdentity, InsertOrLoadPendingRegistrationAdoption,
            SubmitDecision, BeginPendingRegistrationDecision, RemoteVerify,
            RecordPendingRegistrationDecisionFailure, CompletePendingRegistrationDecision,
            Interrupt, LoseAuthority

LEMMA TypeStep ==
    ASSUME TypeOK, [Next]_vars
    PROVE  TypeOK'
<1>1. account' \in [Applicants -> BOOLEAN] /\ authorized' \subseteq Administrators
  BY ZenonT(40) DEF TypeOK, Next, vars, CallStep, Enrol, UpsertPendingRegistrationIntake,
       CreateInitialSession,
         StartAdoption, FetchPendingIdentity, InsertOrLoadPendingRegistrationAdoption,
         SubmitDecision, BeginPendingRegistrationDecision, RemoteCall, RemoteVerify, RemoteFailure,
         RecordPendingRegistrationDecisionFailure, CompletePendingRegistrationDecision,
         Interrupt, LoseAuthority
<1>2. /\ failures' = failures \/ (failures < MaxFailures /\ failures' = failures + 1)
      /\ interrupts' = interrupts \/ (interrupts < MaxInterrupts /\ interrupts' = interrupts + 1)
  BY ZenonT(40) DEF Next, vars, CallStep, Enrol, UpsertPendingRegistrationIntake, CreateInitialSession,
         StartAdoption, FetchPendingIdentity, InsertOrLoadPendingRegistrationAdoption,
         SubmitDecision, BeginPendingRegistrationDecision, RemoteCall, RemoteVerify, RemoteFailure,
         RecordPendingRegistrationDecisionFailure, CompletePendingRegistrationDecision,
         Interrupt, LoseAuthority
<1>3. failures' \in 0..MaxFailures /\ interrupts' \in 0..MaxInterrupts
  BY <1>2, BoundsAssumption DEF TypeOK
<1> QED BY <1>1, <1>3, RowsType, CallsType, GroupsType DEF TypeOK

-----------------------------------------------------------------------------
(* The parts of the invariant. *)

\* Two calls past their first transaction for one row want the same.
LEMMA OneDecision ==
    ASSUME NEW d \in Decisions, NEW e \in Decisions, NEW s,
           s \in {Required(d), Terminal(d)}, s \in {Required(e), Terminal(e)}
    PROVE  d = e
  BY DEF Decisions, Required, Terminal

LEMMA IntentStays ==
    ASSUME TypeOK, EnrolmentKept, [Next]_vars, NEW p \in Applicants, NEW d \in Decisions,
           status[p] \in {Required(d), Terminal(d)}
    PROVE  /\ status'[p] \in {Required(d), Terminal(d)} /\ request'[p] = request[p]
           /\ status[p] = Terminal(d) => status'[p] = Terminal(d) /\ revision'[p] = revision[p]
<1>1. status[p] \notin {"absent", "pending"} /\ (status[p] = Terminal(d) => status[p] \in TerminalStatuses)
  BY StatusType DEF Decisions
<1>2. ASSUME NEW c \in Calls, call[c] \in DecisionCalls, status[p] = Required(call[c].decision),
             status'[p] = Terminal(call[c].decision)
      PROVE  status'[p] = Terminal(d) /\ status[p] # Terminal(d)
  <2>1. call[c].decision \in Decisions
    BY <1>2 DEF DecisionCalls
  <2> QED BY <1>2, <2>1 DEF Decisions, Required, Terminal
<1> QED BY RowMoves, <1>1, <1>2

LEMMA IntentStep ==
    ASSUME IInv, [Next]_vars
    PROVE  IntentKept'
<1> SUFFICES ASSUME NEW c \in Calls, (call[c].phase)' \in {"remote", "record", "complete"}
             PROVE  (HoldsRequired(call[c]) \/ IsComplete(call[c]))'
    BY DEF IntentKept
<1> USE DEF IInv
<1>1. ASSUME call[c] \in DecisionCalls, call[c].phase \in {"remote", "record", "complete"}
      PROVE  /\ status'[call[c].applicant] \in {Required(call[c].decision), Terminal(call[c].decision)}
             /\ request'[call[c].applicant] = call[c].id
  <2>1. HoldsRequired(call[c]) \/ IsComplete(call[c])
    BY <1>1 DEF IntentKept
  <2>2. call[c].applicant \in Applicants /\ call[c].decision \in Decisions
    BY <1>1 DEF DecisionCalls
  <2> QED BY <2>1, <2>2, IntentStays DEF HoldsRequired, IsComplete
<1>2. CASE call'[c] = call[c]
  BY <1>1, <1>2, CallType DEF HoldsRequired, IsComplete, DecisionPhases
<1>3. CASE /\ call[c] \in DecisionCalls
           /\ call'[c].applicant = call[c].applicant /\ call'[c].decision = call[c].decision
           /\ call'[c].id = call[c].id /\ call[c].phase = "remote"
  BY <1>1, <1>3 DEF HoldsRequired, IsComplete
<1>4. CASE /\ call'[c].applicant = call[c].applicant /\ call'[c].decision = call[c].decision
           /\ call'[c].id = call[c].id
           /\ status'[call[c].applicant] = Required(call[c].decision)
           /\ request'[call[c].applicant] = call[c].id
  BY <1>4 DEF HoldsRequired, IsComplete
<1>5. ASSUME call[c] \in AdoptionCalls, call'[c] = [call[c] EXCEPT !.phase = "insert"]
      PROVE  FALSE
  BY <1>5 DEF AdoptionCalls
<1> QED BY CallMoves, <1>2, <1>3, <1>4, <1>5

LEMMA EffectKeepsVerified ==
    ASSUME NEW t \in DecisionCalls, t.step \in {1, 2}, NEW g, Verified(t, g)
    PROVE  Verified(t, RemoteEffect(t, g))
  BY DEF Verified, RemoteEffect, DecisionCalls, Decisions

LEMMA VerifiedStays ==
    ASSUME IInv, [Next]_vars, NEW p \in Applicants, NEW t \in DecisionCalls, t.applicant = p,
           status[p] \in {Required(t.decision), Terminal(t.decision)}, Verified(t, groups[p])
    PROVE  Verified(t, groups'[p])
<1> USE DEF IInv
<1>1. status[p] # "absent"
  BY StatusType DEF DecisionCalls
<1>2. ASSUME NEW c \in Calls, call[c] \in DecisionCalls, call[c].phase = "remote",
             call[c].step \in {1, 2}, call[c].applicant = p,
             groups'[p] = RemoteEffect(call[c], groups[p])
      PROVE  Verified(t, groups'[p])
  <2>1. status[p] \in {Required(call[c].decision), Terminal(call[c].decision)}
    BY <1>2 DEF IntentKept, HoldsRequired, IsComplete
  <2>2. call[c].decision = t.decision
    BY <1>2, <2>1, OneDecision DEF DecisionCalls
  <2>3. Verified(call[c], groups[p])
    BY <2>2 DEF Verified
  <2>4. Verified(call[c], groups'[p])
    BY <1>2, <2>3, EffectKeepsVerified
  <2> QED BY <2>2, <2>4 DEF Verified
<1> QED BY GroupMoves, <1>1, <1>2

LEMMA VerifiedStep ==
    ASSUME IInv, [Next]_vars
    PROVE  VerifiedKept'
<1> SUFFICES ASSUME NEW c \in Calls, (call[c].phase)' = "complete"
             PROVE  Verified(call'[c], groups'[call'[c].applicant])
    BY DEF VerifiedKept, Verified
<1> USE DEF IInv
<1>1. CASE call'[c] = call[c]
  <2>1. call[c] \in DecisionCalls /\ call[c].phase = "complete"
    BY <1>1, CallType DEF DecisionPhases
  <2>2. Verified(call[c], groups[call[c].applicant])
    BY <2>1 DEF VerifiedKept
  <2>3. status[call[c].applicant] \in {Required(call[c].decision), Terminal(call[c].decision)}
    BY <2>1 DEF IntentKept, HoldsRequired, IsComplete
  <2>4. call[c].applicant \in Applicants
    BY <2>1 DEF DecisionCalls
  <2> QED BY <1>1, <2>1, <2>2, <2>3, <2>4, VerifiedStays
<1>2. CASE /\ call'[c].applicant = call[c].applicant /\ call'[c].decision = call[c].decision
           /\ Verified(call[c], groups[call[c].applicant]) /\ UNCHANGED groups
  BY <1>2 DEF Verified
<1>3. ASSUME call[c] \in AdoptionCalls, call'[c] = [call[c] EXCEPT !.phase = "insert"]
      PROVE  FALSE
  BY <1>3 DEF AdoptionCalls
<1> QED BY CallMoves, <1>1, <1>2, <1>3

LEMMA EnrolmentStep ==
    ASSUME IInv, [Next]_vars
    PROVE  EnrolmentKept'
<1> USE DEF IInv
\* While a row is still absent no decision's call changes its groups.
<1>1. ASSUME NEW p \in Applicants, NEW c \in Calls, status[p] = "absent",
             call[c] \in DecisionCalls, call[c].phase = "remote", call[c].applicant = p
      PROVE  FALSE
  <2>1. status[p] \in {Required(call[c].decision), Terminal(call[c].decision)}
    BY <1>1 DEF IntentKept, HoldsRequired, IsComplete
  <2> QED BY <1>1, <2>1, StatusType DEF DecisionCalls
<1>2. ASSUME NEW p \in Applicants, status'[p] = "absent"
      PROVE  /\ status[p] = "absent"
             /\ \/ groups'[p] = groups[p]
                \/ /\ groups[p] = {} /\ groups'[p] \in {{"pending"}, {"accepted"}}
                   /\ UNCHANGED <<row, account, call>>
  <2>1. status[p] = "absent"
    <3>1. \A d \in Decisions : Required(d) # "absent" /\ Terminal(d) # "absent"
      BY StatusType
    <3>2. \A c \in Calls : call[c] \in DecisionCalls => call[c].decision \in Decisions
      BY DEF DecisionCalls
    <3> QED BY RowMoves, <1>2, <3>1, <3>2
  <2> QED BY GroupMoves, <1>1, <2>1
<1>3. ASSUME NEW p \in Applicants, status'[p] = "absent"
      PROVE  groups'[p] \in {{}, {"pending"}, {"accepted"}}
  BY <1>2, <1>3 DEF EnrolmentKept
<1>4. ASSUME NEW p \in Applicants, status'[p] = "absent", account'[p]
      PROVE  groups'[p] = {"accepted"}
  <2>1. CASE account'[p] = account[p]
    BY <1>2, <1>4, <2>1 DEF EnrolmentKept
  <2>2. CASE "accepted" \in groups[p] /\ UNCHANGED groups
    BY <1>2, <1>4, <2>2 DEF EnrolmentKept
  <2> QED BY AccountMoves, <2>1, <2>2
<1>5. ASSUME NEW c \in Calls, call'[c].phase = "insert", status'[call'[c].applicant] = "absent"
      PROVE  groups'[call'[c].applicant] = {"pending"}
  <2>1. CASE call'[c] = call[c]
    <3>1. call[c].applicant \in Applicants
      BY <1>5, <2>1, CallType DEF AdoptionCalls
    <3>2. status[call[c].applicant] = "absent"
      BY <1>2, <1>5, <2>1, <3>1
    <3>3. groups[call[c].applicant] = {"pending"}
      BY <1>5, <2>1, <3>2 DEF EnrolmentKept
    <3> QED BY <1>2, <1>5, <2>1, <3>1, <3>3
  <2>2. CASE /\ call[c] \in AdoptionCalls /\ groups[call[c].applicant] = {"pending"}
             /\ call'[c] = [call[c] EXCEPT !.phase = "insert"] /\ UNCHANGED <<row, groups>>
    BY <2>2 DEF AdoptionCalls
  <2>3. CASE call'[c].phase \in {"idle", "begin", "fetch", "remote", "record", "complete"}
    BY <1>5, <2>3
  <2> QED BY CallMoves, <2>1, <2>2, <2>3
<1> QED BY <1>3, <1>4, <1>5 DEF EnrolmentKept

\* The groups under which a row may be in a terminal status.
LEMMA VerifiedIsRemote ==
    ASSUME NEW t \in DecisionCalls, NEW g \in SUBSET {"accepted", "pending"}
    PROVE  Verified(t, g) <=> g = IF t.decision = "approve" THEN {"accepted"} ELSE {}
  BY DEF Verified, DecisionCalls, Decisions

LEMMA DecisionIsRemoteStep ==
    ASSUME IInv, [Next]_vars
    PROVE  DecisionIsRemote'
<1> SUFFICES ASSUME NEW p \in Applicants
             PROVE  /\ status'[p] = "approved" => groups'[p] = {"accepted"}
                    /\ status'[p] = "rejected" => groups'[p] = {}
    BY DEF DecisionIsRemote
<1> USE DEF IInv
<1>1. TypeOK'
  BY TypeStep
<1>2. CASE status'[p] = status[p] /\ status[p] \in {"approved", "rejected"}
  <2>1. CASE groups'[p] = groups[p]
    BY <1>2, <2>1 DEF DecisionIsRemote
  <2>2. ASSUME NEW c \in Calls, call[c] \in DecisionCalls, call[c].phase = "remote",
               call[c].step \in {1, 2}, call[c].applicant = p,
               groups'[p] = RemoteEffect(call[c], groups[p])
        PROVE  groups'[p] = groups[p]
    <3>1. status[p] \in {Required(call[c].decision), Terminal(call[c].decision)}
      BY <2>2 DEF IntentKept, HoldsRequired, IsComplete
    <3>2. status[p] = Terminal(call[c].decision)
      BY <1>2, <2>2, <3>1 DEF DecisionCalls, Decisions, Required, Terminal
    <3>3. groups[p] = IF call[c].decision = "approve" THEN {"accepted"} ELSE {}
      BY <1>2, <2>2, <3>2 DEF DecisionIsRemote, DecisionCalls, Decisions, Terminal
    <3>4. Verified(call[c], groups[p])
      BY <2>2, <3>3, VerifiedIsRemote
    <3>5. Verified(call[c], groups'[p])
      BY <2>2, <3>4, EffectKeepsVerified
    <3>6. groups'[p] \in SUBSET {"accepted", "pending"}
      BY <1>1 DEF TypeOK
    <3> QED BY <2>2, <3>3, <3>5, <3>6, VerifiedIsRemote
  <2> QED BY <1>2, <2>1, <2>2, GroupMoves
<1>3. ASSUME NEW c \in Calls, call[c] \in DecisionCalls, call[c].phase = "complete",
             call[c].applicant = p, status'[p] = Terminal(call[c].decision), UNCHANGED groups
      PROVE  /\ status'[p] = "approved" => groups'[p] = {"accepted"}
             /\ status'[p] = "rejected" => groups'[p] = {}
  <2>1. Verified(call[c], groups[p]) /\ groups[p] \in SUBSET {"accepted", "pending"}
    BY <1>3 DEF VerifiedKept, TypeOK
  <2>2. groups[p] = IF call[c].decision = "approve" THEN {"accepted"} ELSE {}
    BY <1>3, <2>1, VerifiedIsRemote
  <2> QED BY <1>3, <2>2 DEF Terminal, DecisionCalls, Decisions
<1>4. \A d \in Decisions : Required(d) \notin {"approved", "rejected"}
  BY StatusType
<1> QED BY RowMoves, <1>2, <1>3, <1>4

LEMMA AccountIsApprovedStep ==
    ASSUME IInv, [Next]_vars
    PROVE  AccountIsApproved'
<1> SUFFICES ASSUME NEW p \in Applicants, account'[p], status'[p] # "absent"
             PROVE  status'[p] = "approved"
    BY DEF AccountIsApproved
<1> USE DEF IInv
<1>1. CASE status'[p] = status[p]
  BY <1>1, AccountMoves DEF AccountIsApproved
<1>2. CASE status[p] = "absent" /\ "pending" \in groups[p] /\ UNCHANGED account
  BY <1>2 DEF EnrolmentKept
<1>3. CASE status[p] = "pending" /\ UNCHANGED account
  BY <1>3 DEF AccountIsApproved
<1>4. ASSUME NEW c \in Calls, call[c] \in DecisionCalls, UNCHANGED account,
             status[p] = Required(call[c].decision)
      PROVE  FALSE
  <2>1. status[p] = "approved"
    BY <1>4, StatusType DEF AccountIsApproved, DecisionCalls
  <2> QED BY <1>4, <2>1, StatusType DEF DecisionCalls
<1> QED BY RowMoves, <1>1, <1>2, <1>3, <1>4

-----------------------------------------------------------------------------
(* RegistrationDecision: the theorems. *)

LEMMA Initially == Init => IInv
  BY BoundsAssumption
     DEF Init, IInv, TypeOK, IntentKept, VerifiedKept, EnrolmentKept, DecisionIsRemote,
         AccountIsApproved, Idle

LEMMA Inductive == IInv /\ [Next]_vars => IInv'
  BY TypeStep, IntentStep, VerifiedStep, EnrolmentStep, DecisionIsRemoteStep,
       AccountIsApprovedStep
     DEF IInv

LEMMA Invariance == Spec => []IInv
  BY Initially, Inductive, PTL DEF Spec

\* Every reachable state is well typed: no revision passes its limit, and a
\* call's record fits the phase it is in.
THEOREM RegistrationTypes == Spec => []TypeOK
<1>1. IInv => TypeOK
  BY DEF IInv
<1> QED BY <1>1, Invariance, PTL

\* Whoever has an account and a registration row was approved, whatever
\* intakes, adoptions, decisions and logins ran side by side.
THEOREM AccountIsApprovedAlways == Spec => []AccountIsApproved
<1>1. IInv => AccountIsApproved
  BY DEF IInv
<1> QED BY <1>1, Invariance, PTL

\* The groups of a decided identity are those of its decision, also while
\* other calls of the same request still push their changes.
THEOREM DecisionIsRemoteAlways == Spec => []DecisionIsRemote
<1>1. IInv => DecisionIsRemote
  BY DEF IInv
<1> QED BY <1>1, Invariance, PTL

\* No step of any call reverses an intent or changes a decided row.
THEOREM DecisionStands == Spec => DecisionIsNeverOvertaken
<1>1. ASSUME IInv, [Next]_vars, NEW p \in Applicants
      PROVE  /\ status[p] \in TerminalStatuses => UNCHANGED <<status[p], revision[p], request[p]>>
             /\ \A d \in Decisions : status[p] = Required(d) =>
                  /\ status'[p] \in {Required(d), Terminal(d)}
                  /\ request'[p] = request[p]
  BY <1>1, IntentStays DEF IInv, TerminalStatuses
<1>2. IInv /\ [Next]_vars =>
        [\A p \in Applicants :
           /\ status[p] \in TerminalStatuses => UNCHANGED <<status[p], revision[p], request[p]>>
           /\ \A d \in Decisions : status[p] = Required(d) =>
                /\ status'[p] \in {Required(d), Terminal(d)}
                /\ request'[p] = request[p]]_vars
  BY <1>1
<1> QED BY <1>2, Invariance, PTL DEF Spec, DecisionIsNeverOvertaken

-----------------------------------------------------------------------------
(* Invitations. *)

\* What the bounds and the form's choices are.
InviteParameters ==
    /\ Deliveries \subseteq {"mail", "complete"}
    /\ MaxRevision \in Nat \ {0} /\ MaxSubmissions \in Nat
    /\ MaxFailures \in Nat /\ MaxInterrupts \in Nat

USE DEF Invite!row, Invite!remote, Invite!tokens, Invite!bounds

-----------------------------------------------------------------------------
(* Invitations: the inductive invariant. *)

Makes(t, k) == t.phase \in {"reserve", "list", "create"} /\ t.key = k
Mailing(t, k) == t.phase = "mail" /\ t.key = k
Shows(t, k) == t.phase \in {"mail", "complete"} /\ t.own /\ t.key = k

Makers(k) == {c \in Calls : Makes(invCall[c], k)}
Mailers(k) == {c \in Calls : Mailing(invCall[c], k)}
Showers(k) == {c \in Calls : Shows(invCall[c], k)}

\* A generation has been made by one of the submissions; it is mailed, and
\* shown, by the call that made it.
CountsAt(k) ==
    /\ IsFiniteSet(Makers(k)) /\ made[k] + Cardinality(Makers(k)) <= submitted
    /\ IsFiniteSet(Mailers(k)) /\ mails[k] + Cardinality(Mailers(k)) <= made[k]
    /\ IsFiniteSet(Showers(k)) /\ links[k] + Cardinality(Showers(k)) <= made[k]
CountsHold == \A k \in Keys : CountsAt(k)

\* Generations are numbered, and what is live has not ended.
GenerationsAgree ==
    \A k \in Keys : live[k] <= made[k] /\ gone[k] \subseteq 1..made[k] /\ live[k] \notin gone[k]

Deleted(k, g) == g \in 1..made[k] /\ g \notin gone[k] /\ g # live[k]

\* What a call has seen or done.
CallIsTrue(t) ==
    /\ t.phase \in {"reserve", "list", "create"} => ~t.own
    /\ t.phase = "delete" => t.found \in 1..made[t.key]
    /\ t.phase = "readback" => Deleted(t.key, t.found)
    /\ t.phase = "finish" /\ t.result = "revoked" => \E g \in 1..made[t.key] : Deleted(t.key, g)
CallsAreTrue == \A c \in Calls : CallIsTrue(invCall[c])

InviteInv == Invite!TypeOK /\ CountsHold /\ GenerationsAgree /\ CallsAreTrue /\ Invite!RevokedWasDeleted

-----------------------------------------------------------------------------
(* Invitations: calls. *)

CreatePhases == {"reserve", "list", "create", "mail", "record", "complete"}
RevokePhases == {"begin", "find", "delete", "readback", "finish"}

\* A call is of the kind that its phase says.
LEMMA InviteCallType ==
    ASSUME Invite!TypeOK, NEW c \in Calls
    PROVE  /\ invCall[c].phase \in CreatePhases => invCall[c] \in Invite!CreateCalls
           /\ invCall[c].phase \in RevokePhases => invCall[c] \in Invite!RevokeCalls
           /\ invCall[c] = Invite!Idle <=> invCall[c].phase = "idle"
           /\ invCall[c].phase \in CreatePhases \cup RevokePhases \cup {"idle"}
<1>1. invCall[c] = Invite!Idle \/ invCall[c] \in Invite!CreateCalls \/ invCall[c] \in Invite!RevokeCalls
  BY DEF Invite!TypeOK
<1>2. invCall[c] = Invite!Idle => invCall[c].phase = "idle"
  BY DEF Invite!Idle
<1>3. invCall[c] \in Invite!CreateCalls => invCall[c].phase \in CreatePhases
  BY DEF Invite!CreateCalls, CreatePhases
<1>4. invCall[c] \in Invite!RevokeCalls => invCall[c].phase \in RevokePhases
  BY DEF Invite!RevokeCalls, RevokePhases
<1> QED BY <1>1, <1>2, <1>3, <1>4 DEF CreatePhases, RevokePhases

\* Replacing one call by another.
LEMMA CallReplaced ==
    ASSUME Invite!TypeOK, NEW c \in Calls, NEW x \in Invite!CreateCalls \cup Invite!RevokeCalls \cup {Invite!Idle},
           invCall' = [invCall EXCEPT ![c] = x]
    PROVE  /\ invCall' \in [Calls -> Invite!CreateCalls \cup Invite!RevokeCalls \cup {Invite!Idle}]
           /\ invCall'[c] = x /\ \A d \in Calls \ {c} : invCall'[d] = invCall[d]
  BY DEF Invite!TypeOK

\* A finite set that one element joins or leaves.
LEMMA OneMoves ==
    ASSUME NEW S, NEW T, NEW c, IsFiniteSet(S), T \ {c} = S \ {c}
    PROVE  /\ IsFiniteSet(T) /\ Cardinality(S) \in Nat /\ Cardinality(T) \in Nat
           /\ Cardinality(T) <= Cardinality(S) + 1
           /\ c \notin T => Cardinality(T) <= Cardinality(S)
           /\ c \in S => Cardinality(T) <= Cardinality(S)
           /\ c \in S /\ c \notin T => Cardinality(T) + 1 = Cardinality(S)
<1> DEFINE R == S \ {c}
<1>1. IsFiniteSet(R) /\ c \notin R
  BY FS_Subset
<1>2. S = IF c \in S THEN R \cup {c} ELSE R
  OBVIOUS
<1>3. T = IF c \in T THEN R \cup {c} ELSE R
  OBVIOUS
<1>4. IsFiniteSet(R \cup {c}) /\ Cardinality(R \cup {c}) = Cardinality(R) + 1
  BY <1>1, FS_AddElement
<1>5. Cardinality(R) \in Nat
  BY <1>1, FS_CardinalityType
<1> HIDE DEF R
<1>6. Cardinality(S) = IF c \in S THEN Cardinality(R) + 1 ELSE Cardinality(R)
  BY <1>2, <1>4
<1>7. IsFiniteSet(T) /\ Cardinality(T) = IF c \in T THEN Cardinality(R) + 1 ELSE Cardinality(R)
  BY <1>1, <1>3, <1>4
<1> QED BY <1>5, <1>6, <1>7

-----------------------------------------------------------------------------
(* Counting.  A step concerns one call c, which becomes x. *)

\* Its sets change by that call at most.
LEMMA SetsMove ==
    ASSUME NEW c \in Calls, \A d \in Calls \ {c} : invCall'[d] = invCall[d], NEW k
    PROVE  /\ Makers(k)' \ {c} = Makers(k) \ {c} /\ Mailers(k)' \ {c} = Mailers(k) \ {c}
           /\ Showers(k)' \ {c} = Showers(k) \ {c}
  BY DEF Makers, Mailers, Showers, Makes, Mailing, Shows

\* A call that may do less than it might counts no more.
LEMMA CountsShrink ==
    ASSUME Invite!TypeOK, CountsHold, UNCHANGED <<made, Invite!tokens, submitted>>, NEW c \in Calls,
           \A d \in Calls \ {c} : invCall'[d] = invCall[d],
           \A k \in Keys : /\ Makes(invCall'[c], k) => Makes(invCall[c], k)
                           /\ Mailing(invCall'[c], k) => Mailing(invCall[c], k)
                           /\ Shows(invCall'[c], k) => Shows(invCall[c], k)
    PROVE  CountsHold'
<1> SUFFICES ASSUME NEW k \in Keys PROVE CountsAt(k)'
  BY DEF CountsHold
<1>1. /\ Makers(k)' \in SUBSET Makers(k) /\ Mailers(k)' \in SUBSET Mailers(k)
      /\ Showers(k)' \in SUBSET Showers(k)
  BY DEF Makers, Mailers, Showers, Makes, Mailing, Shows
<1>2. CountsAt(k)
  BY DEF CountsHold
<1>3. /\ IsFiniteSet(Makers(k)') /\ Cardinality(Makers(k)') <= Cardinality(Makers(k))
      /\ IsFiniteSet(Mailers(k)') /\ Cardinality(Mailers(k)') <= Cardinality(Mailers(k))
      /\ IsFiniteSet(Showers(k)') /\ Cardinality(Showers(k)') <= Cardinality(Showers(k))
  BY <1>1, <1>2, FS_Subset DEF CountsAt
<1>4. /\ Cardinality(Makers(k)) \in Nat /\ Cardinality(Makers(k)') \in Nat
      /\ Cardinality(Mailers(k)) \in Nat /\ Cardinality(Mailers(k)') \in Nat
      /\ Cardinality(Showers(k)) \in Nat /\ Cardinality(Showers(k)') \in Nat
  BY <1>2, <1>3, FS_CardinalityType DEF CountsAt
<1>5. made[k] \in Nat /\ mails[k] \in Nat /\ links[k] \in Nat /\ submitted \in Nat
  BY DEF Invite!TypeOK, Invite!Generations
<1> QED BY <1>2, <1>3, <1>4, <1>5 DEF CountsAt

\* What the counts of one key become, for the steps that make, mail or show.
LEMMA CountsChange ==
    ASSUME Invite!TypeOK, CountsHold, NEW c \in Calls, \A d \in Calls \ {c} : invCall'[d] = invCall[d], NEW k \in Keys,
           NEW dmade \in {0, 1}, NEW dmails \in {0, 1}, NEW dlinks \in {0, 1}, NEW dsubmitted \in {0, 1},
           made'[k] = made[k] + dmade, mails'[k] = mails[k] + dmails, links'[k] = links[k] + dlinks,
           submitted' = submitted + dsubmitted,
           \/ ~Makes(invCall'[c], k) /\ dmade = 0
           \/ ~Makes(invCall'[c], k) /\ Makes(invCall[c], k)
           \/ Makes(invCall[c], k) /\ dmade = 0
           \/ dsubmitted = 1 /\ dmade = 0,
           \/ ~Mailing(invCall'[c], k) /\ dmails = 0
           \/ ~Mailing(invCall'[c], k) /\ Mailing(invCall[c], k)
           \/ Mailing(invCall[c], k) /\ dmails = 0
           \/ dmade = 1 /\ dmails = 0,
           \/ ~Shows(invCall'[c], k) /\ dlinks = 0
           \/ ~Shows(invCall'[c], k) /\ Shows(invCall[c], k)
           \/ Shows(invCall[c], k) /\ dlinks = 0
           \/ dmade = 1 /\ dlinks = 0
    PROVE  CountsAt(k)'
<1>1. CountsAt(k)
  BY DEF CountsHold
<1>2. /\ Makers(k)' \ {c} = Makers(k) \ {c} /\ Mailers(k)' \ {c} = Mailers(k) \ {c}
      /\ Showers(k)' \ {c} = Showers(k) \ {c}
  BY SetsMove
<1>3. /\ c \in Makers(k) <=> Makes(invCall[c], k)
      /\ c \in Makers(k)' <=> Makes(invCall'[c], k)
      /\ c \in Mailers(k) <=> Mailing(invCall[c], k)
      /\ c \in Mailers(k)' <=> Mailing(invCall'[c], k)
      /\ c \in Showers(k) <=> Shows(invCall[c], k)
      /\ c \in Showers(k)' <=> Shows(invCall'[c], k)
  BY DEF Makers, Mailers, Showers, Makes, Mailing, Shows
<1>4. made[k] \in Nat /\ mails[k] \in Nat /\ links[k] \in Nat /\ submitted \in Nat
  BY DEF Invite!TypeOK, Invite!Generations
<1>5. IsFiniteSet(Makers(k)') /\ made'[k] + Cardinality(Makers(k)') <= submitted'
  <2> DEFINE S == Makers(k)
             T == Makers(k)'
  <2>1. IsFiniteSet(S) /\ T \ {c} = S \ {c} /\ made[k] + Cardinality(S) <= submitted
    BY <1>1, <1>2 DEF CountsAt
  <2>2. /\ IsFiniteSet(T) /\ Cardinality(S) \in Nat /\ Cardinality(T) \in Nat
        /\ Cardinality(T) <= Cardinality(S) + 1
        /\ c \notin T => Cardinality(T) <= Cardinality(S)
        /\ c \in S => Cardinality(T) <= Cardinality(S)
        /\ c \in S /\ c \notin T => Cardinality(T) + 1 = Cardinality(S)
    <3> HIDE DEF S, T
    <3> QED BY <2>1, OneMoves
  <2>3. \/ c \notin T /\ dmade = 0
        \/ c \notin T /\ c \in S
        \/ c \in S /\ dmade = 0
        \/ dsubmitted = 1 /\ dmade = 0
    BY <1>3
  <2> HIDE DEF S, T
  <2>4. made'[k] + Cardinality(T) <= submitted'
    BY <1>4, <2>1, <2>2, <2>3
  <2> QED BY <2>2, <2>4 DEF T
<1>6. IsFiniteSet(Mailers(k)') /\ mails'[k] + Cardinality(Mailers(k)') <= made'[k]
  <2> DEFINE S == Mailers(k)
             T == Mailers(k)'
  <2>1. IsFiniteSet(S) /\ T \ {c} = S \ {c} /\ mails[k] + Cardinality(S) <= made[k]
    BY <1>1, <1>2 DEF CountsAt
  <2>2. /\ IsFiniteSet(T) /\ Cardinality(S) \in Nat /\ Cardinality(T) \in Nat
        /\ Cardinality(T) <= Cardinality(S) + 1
        /\ c \notin T => Cardinality(T) <= Cardinality(S)
        /\ c \in S => Cardinality(T) <= Cardinality(S)
        /\ c \in S /\ c \notin T => Cardinality(T) + 1 = Cardinality(S)
    <3> HIDE DEF S, T
    <3> QED BY <2>1, OneMoves
  <2>3. \/ c \notin T /\ dmails = 0
        \/ c \notin T /\ c \in S
        \/ c \in S /\ dmails = 0
        \/ dmade = 1 /\ dmails = 0
    BY <1>3
  <2> HIDE DEF S, T
  <2>4. mails'[k] + Cardinality(T) <= made'[k]
    BY <1>4, <2>1, <2>2, <2>3
  <2> QED BY <2>2, <2>4 DEF T
<1>7. IsFiniteSet(Showers(k)') /\ links'[k] + Cardinality(Showers(k)') <= made'[k]
  <2> DEFINE S == Showers(k)
             T == Showers(k)'
  <2>1. IsFiniteSet(S) /\ T \ {c} = S \ {c} /\ links[k] + Cardinality(S) <= made[k]
    BY <1>1, <1>2 DEF CountsAt
  <2>2. /\ IsFiniteSet(T) /\ Cardinality(S) \in Nat /\ Cardinality(T) \in Nat
        /\ Cardinality(T) <= Cardinality(S) + 1
        /\ c \notin T => Cardinality(T) <= Cardinality(S)
        /\ c \in S => Cardinality(T) <= Cardinality(S)
        /\ c \in S /\ c \notin T => Cardinality(T) + 1 = Cardinality(S)
    <3> HIDE DEF S, T
    <3> QED BY <2>1, OneMoves
  <2>3. \/ c \notin T /\ dlinks = 0
        \/ c \notin T /\ c \in S
        \/ c \in S /\ dlinks = 0
        \/ dmade = 1 /\ dlinks = 0
    BY <1>3
  <2> HIDE DEF S, T
  <2>4. links'[k] + Cardinality(T) <= made'[k]
    BY <1>4, <2>1, <2>2, <2>3
  <2> QED BY <2>2, <2>4 DEF T
<1> QED BY <1>5, <1>6, <1>7 DEF CountsAt

-----------------------------------------------------------------------------
(* Generations. *)

AllCalls == Invite!CreateCalls \cup Invite!RevokeCalls \cup {Invite!Idle}

\* What a step does to the remote invitations of one key: nothing, a new one,
\* or the end of the live one, deleted or consumed.
RemoteMoves(k) ==
    \/ live'[k] = live[k] /\ made'[k] = made[k] /\ gone'[k] = gone[k]
    \/ live[k] = 0 /\ made'[k] = made[k] + 1 /\ live'[k] = made[k] + 1 /\ gone'[k] = gone[k]
    \/ live[k] # 0 /\ live'[k] = 0 /\ made'[k] = made[k] /\ gone'[k] \in {gone[k], gone[k] \cup {live[k]}}

\* What was deleted stays deleted: no later generation has its number.
LEMMA DeletedStays ==
    ASSUME Invite!TypeOK, GenerationsAgree, NEW k \in Keys, RemoteMoves(k), NEW g, Deleted(k, g)
    PROVE  Deleted(k, g)'
<1>1. made[k] \in Nat /\ live[k] \in Nat /\ g \in 1..made[k] /\ g \notin gone[k] /\ g # live[k]
  BY DEF Invite!TypeOK, Invite!Generations, Deleted
<1>2. CASE live'[k] = live[k] /\ made'[k] = made[k] /\ gone'[k] = gone[k]
  BY <1>1, <1>2 DEF Deleted
<1>3. CASE made'[k] = made[k] + 1 /\ live'[k] = made[k] + 1 /\ gone'[k] = gone[k]
  BY <1>1, <1>3 DEF Deleted
<1>4. CASE live'[k] = 0 /\ made'[k] = made[k] /\ gone'[k] \in {gone[k], gone[k] \cup {live[k]}}
  BY <1>1, <1>4 DEF Deleted
<1> QED BY <1>2, <1>3, <1>4 DEF RemoteMoves

LEMMA GenerationsStep ==
    ASSUME Invite!TypeOK, GenerationsAgree, \A k \in Keys : RemoteMoves(k)
    PROVE  GenerationsAgree'
<1> SUFFICES ASSUME NEW k \in Keys
             PROVE  live'[k] <= made'[k] /\ gone'[k] \subseteq 1..made'[k] /\ live'[k] \notin gone'[k]
  BY DEF GenerationsAgree
<1>1. /\ made[k] \in Nat /\ live[k] \in Nat
      /\ live[k] <= made[k] /\ gone[k] \subseteq 1..made[k] /\ live[k] \notin gone[k]
  BY DEF Invite!TypeOK, Invite!Generations, GenerationsAgree
<1>2. CASE live'[k] = live[k] /\ made'[k] = made[k] /\ gone'[k] = gone[k]
  BY <1>1, <1>2
<1>3. CASE made'[k] = made[k] + 1 /\ live'[k] = made[k] + 1 /\ gone'[k] = gone[k]
  BY <1>1, <1>3
<1>4. CASE /\ live[k] # 0 /\ live'[k] = 0 /\ made'[k] = made[k]
           /\ gone'[k] \in {gone[k], gone[k] \cup {live[k]}}
  BY <1>1, <1>4
<1> QED BY <1>2, <1>3, <1>4 DEF RemoteMoves

\* What a call has seen stays true while it does not move, and what was called
\* revoked stays deleted.
LEMMA SeenStays ==
    ASSUME Invite!TypeOK, GenerationsAgree, CallsAreTrue, Invite!RevokedWasDeleted, \A k \in Keys : RemoteMoves(k),
           \A k \in Keys : \/ invStatus'[k] # "revoked" \/ invStatus[k] = "revoked"
                           \/ \E g \in 1..made[k] : Deleted(k, g)
    PROVE  /\ \A d \in Calls : invCall'[d] = invCall[d] => CallIsTrue(invCall[d])'
           /\ Invite!RevokedWasDeleted'
<1>1. \A k \in Keys : /\ made[k] \in Nat /\ made'[k] \in Nat /\ made[k] <= made'[k]
                      /\ \A g : Deleted(k, g) => Deleted(k, g)'
  BY DeletedStays DEF RemoteMoves, Invite!TypeOK, Invite!Generations
<1>2. \A k \in Keys : (\E g \in 1..made[k] : Deleted(k, g)) => \E g \in 1..made'[k] : Deleted(k, g)'
  BY <1>1 DEF Deleted
<1>3. ASSUME NEW d \in Calls, invCall'[d] = invCall[d]
      PROVE  CallIsTrue(invCall[d])'
  <2>1. CallIsTrue(invCall[d])
    BY DEF CallsAreTrue
  <2>2. invCall[d].phase \in RevokePhases => invCall[d].key \in Keys
    BY InviteCallType DEF Invite!RevokeCalls
  <2>3. CASE invCall[d].phase = "delete"
    <3>1. invCall[d].key \in Keys /\ invCall[d].found \in 1..made[invCall[d].key]
      BY <2>1, <2>2, <2>3 DEF CallIsTrue, RevokePhases
    <3>2. invCall[d].found \in 1..made'[invCall[d].key]
      BY <1>1, <3>1
    <3> QED BY <1>3, <2>3, <3>2 DEF CallIsTrue
  <2>4. CASE invCall[d].phase = "readback"
    BY <1>1, <1>3, <2>1, <2>2, <2>4 DEF CallIsTrue, RevokePhases, Deleted
  <2>5. CASE invCall[d].phase = "finish"
    BY <1>2, <1>3, <2>1, <2>2, <2>5 DEF CallIsTrue, RevokePhases, Deleted
  <2>6. CASE invCall[d].phase \notin {"delete", "readback", "finish"}
    BY <1>3, <2>1, <2>6 DEF CallIsTrue
  <2> QED BY <2>3, <2>4, <2>5, <2>6
<1>4. ASSUME NEW k \in Keys, invStatus'[k] = "revoked"
      PROVE  \E g \in 1..made'[k] : Deleted(k, g)'
  <2>1. \E g \in 1..made[k] : Deleted(k, g)
    BY <1>4 DEF Invite!RevokedWasDeleted, Deleted
  <2> QED BY <1>2, <2>1
<1> QED BY <1>3, <1>4 DEF Invite!RevokedWasDeleted, Deleted

\* No call moves.
LEMMA StillTrue ==
    ASSUME Invite!TypeOK, GenerationsAgree, CallsAreTrue, Invite!RevokedWasDeleted, \A k \in Keys : RemoteMoves(k),
           \A k \in Keys : \/ invStatus'[k] # "revoked" \/ invStatus[k] = "revoked"
                           \/ \E g \in 1..made[k] : Deleted(k, g),
           UNCHANGED invCall
    PROVE  CallsAreTrue' /\ Invite!RevokedWasDeleted'
  BY SeenStays DEF CallsAreTrue

\* One call moves, to one that has seen what is true.
LEMMA TrueStep ==
    ASSUME Invite!TypeOK, GenerationsAgree, CallsAreTrue, Invite!RevokedWasDeleted, \A k \in Keys : RemoteMoves(k),
           \A k \in Keys : \/ invStatus'[k] # "revoked" \/ invStatus[k] = "revoked"
                           \/ \E g \in 1..made[k] : Deleted(k, g),
           NEW c \in Calls, NEW x \in AllCalls, invCall' = [invCall EXCEPT ![c] = x], CallIsTrue(x)'
    PROVE  CallsAreTrue' /\ Invite!RevokedWasDeleted'
<1>1. invCall'[c] = x /\ \A d \in Calls \ {c} : invCall'[d] = invCall[d]
  BY CallReplaced DEF AllCalls
<1>2. (\A d \in Calls : invCall'[d] = invCall[d] => CallIsTrue(invCall[d])') /\ Invite!RevokedWasDeleted'
  BY SeenStays
<1>3. CallIsTrue(invCall[c])'
  BY <1>1 DEF CallIsTrue, Deleted
<1> QED BY <1>1, <1>2, <1>3 DEF CallsAreTrue

-----------------------------------------------------------------------------
(* Rows, remote invitations and bounds. *)

LEMMA KeysOfCalls ==
    ASSUME Invite!TypeOK, NEW c \in Calls, invCall[c] # Invite!Idle
    PROVE  invCall[c].key \in Keys /\ invCall[c].revision \in 0..MaxRevision
<1>1. invCall[c] \in Invite!CreateCalls \cup Invite!RevokeCalls
  BY DEF Invite!TypeOK
<1> QED BY <1>1 DEF Invite!CreateCalls, Invite!RevokeCalls

LEMMA ChangesType ==
    ASSUME InviteParameters, Invite!TypeOK, NEW k \in Keys, invRevision[k] < MaxRevision, NEW s \in Invite!Statuses, Invite!Changes(k, s)
    PROVE  invStatus' \in [Keys -> Invite!Statuses \cup {"none"}] /\ invRevision' \in [Keys -> 0..MaxRevision]
<1>1. invRevision[k] + 1 \in 0..MaxRevision
  BY DEF Invite!TypeOK, InviteParameters
<1> QED BY <1>1 DEF Invite!TypeOK, Invite!Changes

LEMMA RowType ==
    ASSUME InviteParameters, Invite!TypeOK, [Invite!Next]_(Invite!vars)
    PROVE  invStatus' \in [Keys -> Invite!Statuses \cup {"none"}] /\ invRevision' \in [Keys -> 0..MaxRevision]
<1>1. CASE UNCHANGED Invite!row
  BY <1>1 DEF Invite!TypeOK
<1>2. ASSUME NEW c \in Calls, invCall[c] # Invite!Idle
      PROVE  invCall[c].key \in Keys
  BY <1>2, KeysOfCalls
<1>3. ASSUME NEW c \in Calls, Invite!ReserveRegistrationInvitation(c)
      PROVE  invStatus' \in [Keys -> Invite!Statuses \cup {"none"}] /\ invRevision' \in [Keys -> 0..MaxRevision]
  <2>1. CASE UNCHANGED Invite!row
    BY <1>1, <2>1
  <2>2. CASE /\ invStatus' = [invStatus EXCEPT ![invCall[c].key] = "creating"]
             /\ invRevision' = [invRevision EXCEPT ![invCall[c].key] = 1]
    <3>1. 1 \in 0..MaxRevision /\ "creating" \in Invite!Statuses
      BY DEF InviteParameters, Invite!Statuses
    <3> QED BY <2>2, <3>1 DEF Invite!TypeOK
  <2> QED BY <1>3, <2>1, <2>2 DEF Invite!ReserveRegistrationInvitation
<1>4. ASSUME NEW c \in Calls,
             \/ Invite!RecordRegistrationInvitationFailure(c) \/ Invite!CompleteRegistrationInvitation(c)
             \/ Invite!BeginRegistrationInvitationRevocation(c)
             \/ Invite!CompleteRegistrationInvitationRevocation(c)
      PROVE  \/ UNCHANGED Invite!row
             \/ \E s \in Invite!Statuses : invRevision[invCall[c].key] < MaxRevision /\ Invite!Changes(invCall[c].key, s)
  <2>1. invCall[c] # Invite!Idle
    BY <1>4, InviteCallType DEF Invite!RecordRegistrationInvitationFailure,
         Invite!CompleteRegistrationInvitation,
           Invite!BeginRegistrationInvitationRevocation, Invite!CompleteRegistrationInvitationRevocation
  <2>2. CASE Invite!RecordRegistrationInvitationFailure(c)
    BY <2>2 DEF Invite!RecordRegistrationInvitationFailure, Invite!OwnsReservation,
         Invite!Statuses
  <2>3. CASE Invite!CompleteRegistrationInvitation(c)
    BY <2>3 DEF Invite!CompleteRegistrationInvitation, Invite!OwnsReservation, Invite!Statuses
  <2>4. CASE Invite!BeginRegistrationInvitationRevocation(c)
    BY <2>4 DEF Invite!BeginRegistrationInvitationRevocation, Invite!MayBeginRevocation,
         Invite!Statuses
  <2>5. CASE Invite!CompleteRegistrationInvitationRevocation(c)
    <3>1. invCall[c].result \in Invite!Statuses
      BY <2>5, InviteCallType DEF Invite!CompleteRegistrationInvitationRevocation, RevokePhases,
           Invite!RevokeCalls,
             Invite!TerminalStatuses, Invite!Statuses
    <3> QED BY <2>5, <3>1 DEF Invite!CompleteRegistrationInvitationRevocation
  <2> QED BY <1>4, <2>2, <2>3, <2>4, <2>5
<1>5. ASSUME NEW c \in Calls,
             \/ Invite!RecordRegistrationInvitationFailure(c) \/ Invite!CompleteRegistrationInvitation(c)
             \/ Invite!BeginRegistrationInvitationRevocation(c)
             \/ Invite!CompleteRegistrationInvitationRevocation(c)
      PROVE  invStatus' \in [Keys -> Invite!Statuses \cup {"none"}] /\ invRevision' \in [Keys -> 0..MaxRevision]
  <2>1. invCall[c] # Invite!Idle
    BY <1>5, InviteCallType DEF Invite!RecordRegistrationInvitationFailure,
         Invite!CompleteRegistrationInvitation,
           Invite!BeginRegistrationInvitationRevocation, Invite!CompleteRegistrationInvitationRevocation
  <2> QED BY <1>1, <1>2, <1>4, <1>5, <2>1, ChangesType
<1> QED BY <1>1, <1>3, <1>5
        DEF Invite!Next, Invite!vars, Invite!CallStep, Invite!StartCreate, Invite!StartRevoke,
             Invite!AdoptInvitation, Invite!CreateInvitation, Invite!SendInvitation,
            Invite!FindInvitation, Invite!DeleteInvitation, Invite!ReadBackInvitation, Invite!CreateFailure, Invite!RevokeFailure,
            Invite!Interrupt, Invite!InvitationEnds

\* The remote invitations of every key move in one of the three ways.
LEMMA RemoteStep ==
    ASSUME Invite!TypeOK, CallsAreTrue, [Invite!Next]_(Invite!vars)
    PROVE  /\ live' \in [Keys -> Nat] /\ made' \in [Keys -> Nat] /\ gone' \in [Keys -> SUBSET Nat]
           /\ \A k \in Keys : RemoteMoves(k)
<1>1. live \in [Keys -> Nat] /\ made \in [Keys -> Nat] /\ gone \in [Keys -> SUBSET Nat]
  <2>1. live \in [Keys -> Nat] /\ made \in [Keys -> Nat]
    BY DEF Invite!TypeOK, Invite!Generations
  <2>2. \A k \in Keys : gone[k] \in SUBSET Nat
    BY DEF Invite!TypeOK
  <2> QED BY <2>1, <2>2 DEF Invite!TypeOK
<1>2. CASE UNCHANGED Invite!remote
  BY <1>1, <1>2 DEF RemoteMoves
<1>3. ASSUME NEW k \in Keys, live[k] = 0, made' = [made EXCEPT ![k] = @ + 1],
             live' = [live EXCEPT ![k] = made[k] + 1], gone' = gone
      PROVE  /\ live' \in [Keys -> Nat] /\ made' \in [Keys -> Nat] /\ gone' \in [Keys -> SUBSET Nat]
             /\ \A l \in Keys : RemoteMoves(l)
  <2>1. made[k] + 1 \in Nat
    BY <1>1
  <2> QED BY <1>1, <1>3, <2>1 DEF RemoteMoves
<1>4. ASSUME NEW k \in Keys, live[k] # 0, live' = [live EXCEPT ![k] = 0], made' = made,
             gone' = gone \/ gone' = [gone EXCEPT ![k] = @ \cup {live[k]}]
      PROVE  /\ live' \in [Keys -> Nat] /\ made' \in [Keys -> Nat] /\ gone' \in [Keys -> SUBSET Nat]
             /\ \A l \in Keys : RemoteMoves(l)
  <2>1. gone[k] \cup {live[k]} \in SUBSET Nat
    BY <1>1
  <2>2. live' \in [Keys -> Nat] /\ gone' \in [Keys -> SUBSET Nat]
    BY <1>1, <1>4, <2>1
  <2> QED BY <1>1, <1>4, <2>2 DEF RemoteMoves
<1>5. ASSUME NEW c \in Calls, Invite!CreateInvitation(c) \/ Invite!CreateFailure(c)
      PROVE  /\ live' \in [Keys -> Nat] /\ made' \in [Keys -> Nat] /\ gone' \in [Keys -> SUBSET Nat]
             /\ \A l \in Keys : RemoteMoves(l)
  <2>1. invCall[c] # Invite!Idle
    BY <1>5, InviteCallType DEF Invite!CreateInvitation, Invite!CreateFailure
  <2>2. invCall[c].key \in Keys
    BY <2>1, KeysOfCalls
  <2> QED BY <1>2, <1>3, <1>5, <2>2 DEF Invite!CreateInvitation, Invite!CreateFailure
<1>6. ASSUME NEW c \in Calls, Invite!DeleteInvitation(c) \/ Invite!RevokeFailure(c)
      PROVE  /\ live' \in [Keys -> Nat] /\ made' \in [Keys -> Nat] /\ gone' \in [Keys -> SUBSET Nat]
             /\ \A l \in Keys : RemoteMoves(l)
  <2>1. invCall[c] # Invite!Idle
    BY <1>6, InviteCallType DEF Invite!DeleteInvitation, Invite!RevokeFailure
  <2>2. invCall[c].key \in Keys
    BY <2>1, KeysOfCalls
  <2>3. invCall[c].phase = "delete" => invCall[c].found # 0
    <3>1. ASSUME invCall[c].phase = "delete"
          PROVE  invCall[c].found # 0
      <4>1. invCall[c].found \in 1..made[invCall[c].key]
        BY <3>1 DEF CallsAreTrue, CallIsTrue
      <4> QED BY <1>1, <2>2, <4>1
    <3> QED BY <3>1
  <2> QED BY <1>2, <1>4, <1>6, <2>2, <2>3 DEF Invite!DeleteInvitation, Invite!RevokeFailure
<1>7. ASSUME NEW k \in Keys, Invite!InvitationEnds(k)
      PROVE  /\ live' \in [Keys -> Nat] /\ made' \in [Keys -> Nat] /\ gone' \in [Keys -> SUBSET Nat]
             /\ \A l \in Keys : RemoteMoves(l)
  BY <1>4, <1>7 DEF Invite!InvitationEnds
<1> QED BY <1>2, <1>5, <1>6, <1>7
        DEF Invite!Next, Invite!vars, Invite!CallStep, Invite!StartCreate, Invite!StartRevoke,
             Invite!ReserveRegistrationInvitation, Invite!AdoptInvitation,
            Invite!SendInvitation, Invite!RecordRegistrationInvitationFailure, Invite!CompleteRegistrationInvitation,
            Invite!BeginRegistrationInvitationRevocation, Invite!FindInvitation, Invite!ReadBackInvitation,
            Invite!CompleteRegistrationInvitationRevocation, Invite!Interrupt

LEMMA BoundsType ==
    ASSUME InviteParameters, Invite!TypeOK, [Invite!Next]_(Invite!vars)
    PROVE  /\ mails' \in [Keys -> Nat] /\ links' \in [Keys -> Nat] /\ asked' \subseteq Keys
           /\ submitted' \in 0..MaxSubmissions /\ invFailures' \in 0..MaxFailures
           /\ invInterrupts' \in 0..MaxInterrupts
<1>1. ASSUME UNCHANGED <<mails, links>>
      PROVE  mails' \in [Keys -> Nat] /\ links' \in [Keys -> Nat]
  BY <1>1 DEF Invite!TypeOK
<1>2. ASSUME NEW c \in Calls, Invite!SendInvitation(c) \/ Invite!CompleteRegistrationInvitation(c)
      PROVE  mails' \in [Keys -> Nat] /\ links' \in [Keys -> Nat]
  <2>1. invCall[c] # Invite!Idle
    BY <1>2, InviteCallType DEF Invite!SendInvitation, Invite!CompleteRegistrationInvitation
  <2>2. invCall[c].key \in Keys
    BY <2>1, KeysOfCalls
  <2>3. mails[invCall[c].key] + 1 \in Nat /\ links[invCall[c].key] + 1 \in Nat /\ links[invCall[c].key] \in Nat
    BY <2>2 DEF Invite!TypeOK
  <2>4. CASE Invite!SendInvitation(c)
    BY <2>3, <2>4 DEF Invite!SendInvitation, Invite!TypeOK
  <2>5. CASE Invite!CompleteRegistrationInvitation(c)
    <3>1. mails' = mails
      BY <2>5 DEF Invite!CompleteRegistrationInvitation
    <3>2. \/ links' = links
          \/ \E n \in Nat : links' = [links EXCEPT ![invCall[c].key] = n]
      BY <2>3, <2>5 DEF Invite!CompleteRegistrationInvitation
    <3> QED BY <3>1, <3>2 DEF Invite!TypeOK
  <2> QED BY <1>2, <2>4, <2>5
<1>3. mails' \in [Keys -> Nat] /\ links' \in [Keys -> Nat]
  BY <1>1, <1>2, ZenonT(40)
     DEF Invite!Next, Invite!vars, Invite!CallStep, Invite!StartCreate, Invite!StartRevoke,
          Invite!ReserveRegistrationInvitation, Invite!AdoptInvitation,
         Invite!CreateInvitation, Invite!RecordRegistrationInvitationFailure,
         Invite!BeginRegistrationInvitationRevocation, Invite!FindInvitation, Invite!DeleteInvitation, Invite!ReadBackInvitation,
         Invite!CompleteRegistrationInvitationRevocation, Invite!CreateFailure, Invite!RevokeFailure, Invite!Interrupt, Invite!InvitationEnds
<1>4. \/ UNCHANGED submitted
      \/ submitted < MaxSubmissions /\ submitted' = submitted + 1
  BY ZenonT(40) DEF Invite!Next, Invite!vars, Invite!CallStep, Invite!StartCreate, Invite!StartRevoke,
       Invite!ReserveRegistrationInvitation, Invite!AdoptInvitation,
         Invite!CreateInvitation, Invite!SendInvitation, Invite!RecordRegistrationInvitationFailure, Invite!CompleteRegistrationInvitation,
         Invite!BeginRegistrationInvitationRevocation, Invite!FindInvitation, Invite!DeleteInvitation, Invite!ReadBackInvitation,
         Invite!CompleteRegistrationInvitationRevocation, Invite!CreateFailure, Invite!RevokeFailure, Invite!Interrupt, Invite!InvitationEnds
<1>5. \/ UNCHANGED invFailures
      \/ invFailures < MaxFailures /\ invFailures' = invFailures + 1
  BY ZenonT(40) DEF Invite!Next, Invite!vars, Invite!CallStep, Invite!StartCreate, Invite!StartRevoke,
       Invite!ReserveRegistrationInvitation, Invite!AdoptInvitation,
         Invite!CreateInvitation, Invite!SendInvitation, Invite!RecordRegistrationInvitationFailure, Invite!CompleteRegistrationInvitation,
         Invite!BeginRegistrationInvitationRevocation, Invite!FindInvitation, Invite!DeleteInvitation, Invite!ReadBackInvitation,
         Invite!CompleteRegistrationInvitationRevocation, Invite!CreateFailure, Invite!RevokeFailure, Invite!Interrupt, Invite!InvitationEnds
<1>6. \/ UNCHANGED invInterrupts
      \/ invInterrupts < MaxInterrupts /\ invInterrupts' = invInterrupts + 1
  BY ZenonT(40) DEF Invite!Next, Invite!vars, Invite!CallStep, Invite!StartCreate, Invite!StartRevoke,
       Invite!ReserveRegistrationInvitation, Invite!AdoptInvitation,
         Invite!CreateInvitation, Invite!SendInvitation, Invite!RecordRegistrationInvitationFailure, Invite!CompleteRegistrationInvitation,
         Invite!BeginRegistrationInvitationRevocation, Invite!FindInvitation, Invite!DeleteInvitation, Invite!ReadBackInvitation,
         Invite!CompleteRegistrationInvitationRevocation, Invite!CreateFailure, Invite!RevokeFailure, Invite!Interrupt, Invite!InvitationEnds
<1>7. asked' \subseteq Keys
  BY ZenonT(40) DEF Invite!TypeOK, Invite!Next, Invite!vars, Invite!CallStep, Invite!StartCreate,
       Invite!StartRevoke, Invite!ReserveRegistrationInvitation, Invite!AdoptInvitation,
         Invite!CreateInvitation, Invite!SendInvitation, Invite!RecordRegistrationInvitationFailure, Invite!CompleteRegistrationInvitation,
         Invite!BeginRegistrationInvitationRevocation, Invite!FindInvitation, Invite!DeleteInvitation, Invite!ReadBackInvitation,
         Invite!CompleteRegistrationInvitationRevocation, Invite!CreateFailure, Invite!RevokeFailure, Invite!Interrupt, Invite!InvitationEnds
<1>8. submitted' \in 0..MaxSubmissions
  BY <1>4 DEF Invite!TypeOK, InviteParameters
<1>9. invFailures' \in 0..MaxFailures
  BY <1>5 DEF Invite!TypeOK, InviteParameters
<1>10. invInterrupts' \in 0..MaxInterrupts
  BY <1>6 DEF Invite!TypeOK, InviteParameters
<1> QED BY <1>3, <1>7, <1>8, <1>9, <1>10

-----------------------------------------------------------------------------
(* What becomes of the call that moves. *)

BecomesTrue(c, x) == x \in AllCalls /\ invCall' = [invCall EXCEPT ![c] = x] /\ CallIsTrue(x)'

\* A call that ends counts nowhere and has seen nothing.
LEMMA IdleIsTrue ==
    ASSUME NEW c \in Calls, Invite!Ends(c)
    PROVE  BecomesTrue(c, Invite!Idle) /\ \A k : ~Makes(Invite!Idle, k) /\ ~Mailing(Invite!Idle, k) /\ ~Shows(Invite!Idle, k)
<1>1. Invite!Idle.phase = "idle" /\ Invite!Idle \in AllCalls
  BY DEF Invite!Idle, AllCalls
<1>2. CallIsTrue(Invite!Idle)'
  BY <1>1 DEF CallIsTrue
<1> QED BY <1>1, <1>2 DEF BecomesTrue, Invite!Ends, Makes, Mailing, Shows

\* A call that counts for no more than before.
LEMMA Shrinks ==
    ASSUME Invite!TypeOK, CountsHold, UNCHANGED <<made, Invite!tokens, submitted>>, NEW c \in Calls, NEW x,
           BecomesTrue(c, x),
           \A k \in Keys : /\ Makes(x, k) => Makes(invCall[c], k)
                           /\ Mailing(x, k) => Mailing(invCall[c], k)
                           /\ Shows(x, k) => Shows(invCall[c], k)
    PROVE  CountsHold'
<1>1. invCall'[c] = x /\ \A d \in Calls \ {c} : invCall'[d] = invCall[d]
  BY CallReplaced DEF BecomesTrue, AllCalls
<1> QED BY <1>1, CountsShrink

\* A call that creates stays one, with its key, in each of the three ways in
\* which it moves.
LEMMA CreateCallOf ==
    ASSUME Invite!TypeOK, NEW c \in Calls, invCall[c].phase \in CreatePhases, NEW p \in CreatePhases,
           NEW r \in 0..MaxRevision, NEW o \in BOOLEAN,
           \/ invCall' = [invCall EXCEPT ![c].phase = p] /\ r = invCall[c].revision /\ o = invCall[c].own
           \/ invCall' = [invCall EXCEPT ![c].phase = p, ![c].revision = r] /\ o = invCall[c].own
           \/ invCall' = [invCall EXCEPT ![c].phase = p, ![c].own = o] /\ r = invCall[c].revision
    PROVE  \E x \in Invite!CreateCalls : /\ invCall' = [invCall EXCEPT ![c] = x]
                                  /\ x.phase = p /\ x.key = invCall[c].key /\ x.own = o
<1>1. invCall[c] \in Invite!CreateCalls
  BY InviteCallType
<1>2. CASE invCall' = [invCall EXCEPT ![c].phase = p] /\ r = invCall[c].revision /\ o = invCall[c].own
  <2>1. PICK x : x = [invCall[c] EXCEPT !.phase = p]
    OBVIOUS
  <2>2. x \in Invite!CreateCalls /\ x.phase = p /\ x.key = invCall[c].key /\ x.own = invCall[c].own
    BY <1>1, <2>1 DEF Invite!CreateCalls, CreatePhases
  <2> QED BY <1>2, <2>1, <2>2
<1>3. CASE invCall' = [invCall EXCEPT ![c].phase = p, ![c].revision = r] /\ o = invCall[c].own
  <2>1. PICK x : x = [invCall[c] EXCEPT !.phase = p, !.revision = r]
    OBVIOUS
  <2>2. x \in Invite!CreateCalls /\ x.phase = p /\ x.key = invCall[c].key /\ x.own = invCall[c].own
    BY <1>1, <2>1 DEF Invite!CreateCalls, CreatePhases
  <2> QED BY <1>3, <2>1, <2>2
<1>4. CASE invCall' = [invCall EXCEPT ![c].phase = p, ![c].own = o] /\ r = invCall[c].revision
  <2>1. PICK x : x = [invCall[c] EXCEPT !.phase = p, !.own = o]
    OBVIOUS
  <2>2. x \in Invite!CreateCalls /\ x.phase = p /\ x.key = invCall[c].key /\ x.own = o
    BY <1>1, <2>1 DEF Invite!CreateCalls, CreatePhases
  <2> QED BY <1>4, <2>1, <2>2
<1> QED BY <1>2, <1>3, <1>4

LEMMA CreateOwn ==
    ASSUME Invite!TypeOK, NEW c \in Calls, invCall[c].phase \in CreatePhases
    PROVE  /\ invCall[c].own \in BOOLEAN /\ invCall[c].revision \in 0..MaxRevision /\ invCall[c].key \in Keys
           /\ ~invCall[c].own => invCall[c].own = FALSE
           /\ invCall[c].own => invCall[c].own = TRUE
<1>1. invCall[c] \in Invite!CreateCalls
  BY InviteCallType
<1>2. invCall[c].own \in BOOLEAN
  BY <1>1 DEF Invite!CreateCalls
<1> QED BY <1>1, <1>2, Zenon DEF Invite!CreateCalls

LEMMA StartCreateMoves ==
    ASSUME InviteParameters, InviteInv, NEW c \in Calls, NEW k \in Keys, Invite!StartCreate(c, k)
    PROVE  CountsHold' /\ \E x \in AllCalls : BecomesTrue(c, x)
<1> DEFINE x == [phase |-> "reserve", key |-> k, revision |-> 0, own |-> FALSE]
<1>1. x \in AllCalls
  BY DEF AllCalls, Invite!CreateCalls, InviteParameters
<1>2. x.phase = "reserve" /\ ~x.own
  OBVIOUS
<1>3. /\ invCall' = [invCall EXCEPT ![c] = x] /\ submitted' = submitted + 1
      /\ UNCHANGED <<made, mails, links>>
  BY DEF Invite!StartCreate, Invite!Starts
<1> HIDE DEF x
<1>4. BecomesTrue(c, x)
  BY <1>1, <1>2, <1>3 DEF BecomesTrue, CallIsTrue
<1>5. invCall'[c] = x /\ \A d \in Calls \ {c} : invCall'[d] = invCall[d]
  BY <1>1, <1>3, CallReplaced DEF AllCalls, InviteInv
<1>6. ASSUME NEW l \in Keys
      PROVE  CountsAt(l)'
  <2>1. ~Mailing(x, l) /\ ~Shows(x, l)
    BY <1>2 DEF Mailing, Shows
  <2>2. /\ made'[l] = made[l] + 0 /\ mails'[l] = mails[l] + 0 /\ links'[l] = links[l] + 0
    BY <1>3 DEF InviteInv, Invite!TypeOK, Invite!Generations
  <2> QED BY <1>3, <1>5, <2>1, <2>2, CountsChange DEF InviteInv
<1> QED BY <1>1, <1>4, <1>6 DEF CountsHold

\* A call that has made nothing yet goes on, or gives up making.
LEMMA OwnlessMoves ==
    ASSUME InviteInv, NEW c \in Calls, invCall[c].phase \in {"reserve", "list", "create"},
           UNCHANGED <<made, Invite!tokens, submitted>>,
           NEW p \in {"list", "create", "record", "complete"}, NEW r \in 0..MaxRevision,
           \/ invCall' = [invCall EXCEPT ![c].phase = p] /\ r = invCall[c].revision
           \/ invCall' = [invCall EXCEPT ![c].phase = p, ![c].revision = r]
    PROVE  CountsHold' /\ \E x \in AllCalls : BecomesTrue(c, x)
<1>1. Invite!TypeOK /\ CountsHold /\ invCall[c].phase \in CreatePhases /\ p \in CreatePhases
  BY DEF InviteInv, CreatePhases
<1>2. ~invCall[c].own
  BY DEF InviteInv, CallsAreTrue, CallIsTrue
<1>3. invCall[c].own = FALSE
  BY <1>1, <1>2, CreateOwn
<1>9. PICK o \in BOOLEAN : o = invCall[c].own
  BY <1>1, CreateOwn
<1>4. PICK x \in Invite!CreateCalls : /\ invCall' = [invCall EXCEPT ![c] = x]
                              /\ x.phase = p /\ x.key = invCall[c].key /\ x.own = FALSE
  <2>1. \E x \in Invite!CreateCalls : /\ invCall' = [invCall EXCEPT ![c] = x]
                               /\ x.phase = p /\ x.key = invCall[c].key /\ x.own = o
    BY <1>1, <1>9, CreateCallOf
  <2> QED BY <1>3, <1>9, <2>1
<1>5. ~x.own /\ x.phase \notin {"delete", "readback", "finish"}
  BY <1>4
<1>6. CallIsTrue(x)'
  BY <1>5 DEF CallIsTrue
<1>7. BecomesTrue(c, x)
  BY <1>4, <1>6 DEF BecomesTrue, AllCalls
<1>8. \A k \in Keys : /\ Makes(x, k) => Makes(invCall[c], k)
                      /\ ~Mailing(x, k) /\ ~Shows(x, k)
  BY <1>4, <1>5 DEF Makes, Mailing, Shows
<1> QED BY <1>1, <1>4, <1>7, <1>8, Shrinks DEF AllCalls

\* A generation is made by a call that could make one, which makes no other.
LEMMA MakingMoves ==
    ASSUME InviteInv, NEW c \in Calls, invCall[c].phase = "create", UNCHANGED <<Invite!tokens, submitted>>,
           made' = [made EXCEPT ![invCall[c].key] = @ + 1],
           NEW p \in {"mail", "record", "complete"}, NEW o \in BOOLEAN,
           \/ invCall' = [invCall EXCEPT ![c].phase = p] /\ o = invCall[c].own
           \/ invCall' = [invCall EXCEPT ![c].phase = p, ![c].own = o]
    PROVE  CountsHold' /\ \E x \in AllCalls : BecomesTrue(c, x)
<1>1. Invite!TypeOK /\ CountsHold /\ invCall[c].phase \in CreatePhases /\ p \in CreatePhases
  BY DEF InviteInv, CreatePhases
<1>2. invCall[c].revision \in 0..MaxRevision /\ invCall[c].key \in Keys
  BY <1>1, CreateOwn
<1>3. PICK x \in Invite!CreateCalls : /\ invCall' = [invCall EXCEPT ![c] = x]
                              /\ x.phase = p /\ x.key = invCall[c].key /\ x.own = o
  BY <1>1, <1>2, CreateCallOf
<1>4. x.phase \notin {"reserve", "list", "create", "delete", "readback", "finish"}
  BY <1>3
<1>5. CallIsTrue(x)'
  BY <1>4 DEF CallIsTrue
<1>6. BecomesTrue(c, x)
  BY <1>3, <1>5 DEF BecomesTrue, AllCalls
<1>7. invCall'[c] = x /\ \A d \in Calls \ {c} : invCall'[d] = invCall[d]
  BY <1>1, <1>3, CallReplaced
<1>8. ASSUME NEW k \in Keys
      PROVE  CountsAt(k)'
  <2>1. made[k] \in Nat /\ mails'[k] = mails[k] + 0 /\ links'[k] = links[k] + 0 /\ submitted' = submitted + 0
    BY <1>1 DEF Invite!TypeOK, Invite!Generations
  <2>2. ~Makes(x, k)
    BY <1>4 DEF Makes
  <2>3. CASE k = invCall[c].key
    <3>1. made'[k] = made[k] + 1 /\ Makes(invCall[c], k)
      BY <1>1, <2>3 DEF Invite!TypeOK, Makes
    <3> QED BY <1>1, <1>7, <2>1, <2>2, <3>1, CountsChange
  <2>4. CASE k # invCall[c].key
    <3>1. made'[k] = made[k] + 0
      BY <1>1, <2>1, <2>4 DEF Invite!TypeOK
    <3>2. ~Mailing(x, k) /\ ~Shows(x, k)
      BY <1>3, <2>4 DEF Mailing, Shows
    <3> QED BY <1>1, <1>7, <2>1, <2>2, <3>1, <3>2, CountsChange
  <2> QED BY <2>3, <2>4
<1> QED BY <1>3, <1>6, <1>8 DEF CountsHold, AllCalls

\* A call that ends and leaves the counts alone.
LEMMA EndMoves ==
    ASSUME InviteInv, NEW c \in Calls, Invite!Ends(c), UNCHANGED <<made, Invite!tokens, submitted>>
    PROVE  CountsHold' /\ \E x \in AllCalls : BecomesTrue(c, x)
<1>1. Invite!TypeOK /\ CountsHold /\ Invite!Idle \in AllCalls
  BY DEF InviteInv, AllCalls
<1> QED BY <1>1, IdleIsTrue, Shrinks

LEMMA ReserveMoves ==
    ASSUME InviteParameters, InviteInv, NEW c \in Calls, Invite!ReserveRegistrationInvitation(c)
    PROVE  CountsHold' /\ \E x \in AllCalls : BecomesTrue(c, x)
<1>1. invCall[c].phase = "reserve" /\ UNCHANGED <<made, Invite!tokens, submitted>> /\ Invite!TypeOK
  BY DEF Invite!ReserveRegistrationInvitation, InviteInv
<1>2. invRevision[invCall[c].key] \in 0..MaxRevision /\ 1 \in 0..MaxRevision
  <2>1. invCall[c] # Invite!Idle
    BY <1>1, InviteCallType
  <2> QED BY <1>1, <2>1, KeysOfCalls DEF Invite!TypeOK, InviteParameters
<1>3. CASE Invite!Ends(c)
  BY <1>1, <1>3, EndMoves
<1>4. CASE invCall' = [invCall EXCEPT ![c].phase = "create", ![c].revision = 1]
  BY <1>1, <1>2, <1>4, OwnlessMoves
<1>5. CASE invCall' = [invCall EXCEPT ![c].phase = "list", ![c].revision = invRevision[invCall[c].key]]
  BY <1>1, <1>2, <1>5, OwnlessMoves
<1> QED BY <1>3, <1>4, <1>5 DEF Invite!ReserveRegistrationInvitation

LEMMA AdoptMoves ==
    ASSUME InviteParameters, InviteInv, NEW c \in Calls, Invite!AdoptInvitation(c)
    PROVE  CountsHold' /\ \E x \in AllCalls : BecomesTrue(c, x)
<1>1. invCall[c].phase = "list" /\ UNCHANGED <<made, Invite!tokens, submitted>> /\ Invite!TypeOK
  BY DEF Invite!AdoptInvitation, InviteInv
<1>2. invCall[c].revision \in 0..MaxRevision
  BY <1>1, CreateOwn DEF CreatePhases
<1>3. \/ invCall' = [invCall EXCEPT ![c].phase = "complete"]
      \/ invCall' = [invCall EXCEPT ![c].phase = "create"]
  BY DEF Invite!AdoptInvitation, Invite!Moves
<1> QED BY <1>1, <1>2, <1>3, OwnlessMoves

LEMMA CreateMoves ==
    ASSUME InviteParameters, InviteInv, NEW c \in Calls, Invite!CreateInvitation(c)
    PROVE  CountsHold' /\ \E x \in AllCalls : BecomesTrue(c, x)
<1>1. invCall[c].phase = "create" /\ UNCHANGED <<Invite!tokens, submitted>> /\ Invite!TypeOK
  BY DEF Invite!CreateInvitation, InviteInv
<1>2. invCall[c].revision \in 0..MaxRevision
  BY <1>1, CreateOwn DEF CreatePhases
<1>3. CASE invCall' = [invCall EXCEPT ![c].phase = "record"] /\ UNCHANGED made
  BY <1>1, <1>2, <1>3, OwnlessMoves
<1>4. ASSUME NEW p \in Deliveries, made' = [made EXCEPT ![invCall[c].key] = @ + 1],
             invCall' = [invCall EXCEPT ![c].phase = p, ![c].own = TRUE]
      PROVE  CountsHold' /\ \E x \in AllCalls : BecomesTrue(c, x)
  <2>1. p \in {"mail", "record", "complete"} /\ TRUE \in BOOLEAN
    BY DEF InviteParameters
  <2> QED BY <1>1, <1>4, <2>1, MakingMoves
<1> QED BY <1>3, <1>4 DEF Invite!CreateInvitation, Invite!Moves

LEMMA CreateFailureMoves ==
    ASSUME InviteParameters, InviteInv, NEW c \in Calls, Invite!CreateFailure(c)
    PROVE  CountsHold' /\ \E x \in AllCalls : BecomesTrue(c, x)
<1>1. /\ invCall[c].phase \in {"list", "create"} /\ UNCHANGED <<Invite!tokens, submitted>> /\ Invite!TypeOK
      /\ invCall' = [invCall EXCEPT ![c].phase = "record"]
  BY DEF Invite!CreateFailure, InviteInv, Invite!Moves
<1>2. invCall[c].revision \in 0..MaxRevision /\ invCall[c].own \in BOOLEAN
  BY <1>1, CreateOwn DEF CreatePhases
<1>3. CASE UNCHANGED made
  BY <1>1, <1>2, <1>3, OwnlessMoves
<1>4. CASE invCall[c].phase = "create" /\ made' = [made EXCEPT ![invCall[c].key] = @ + 1]
  BY <1>1, <1>2, <1>4, MakingMoves
<1> QED BY <1>3, <1>4 DEF Invite!CreateFailure

\* The mail is of the call's own generation, and it is sent once.
LEMMA SendMoves ==
    ASSUME InviteParameters, InviteInv, NEW c \in Calls, Invite!SendInvitation(c)
    PROVE  CountsHold' /\ \E x \in AllCalls : BecomesTrue(c, x)
<1>1. /\ invCall[c].phase = "mail" /\ UNCHANGED <<made, links, submitted>> /\ Invite!TypeOK /\ CountsHold
      /\ invCall' = [invCall EXCEPT ![c].phase = "complete"]
      /\ mails' = [mails EXCEPT ![invCall[c].key] = @ + 1]
  BY DEF Invite!SendInvitation, InviteInv, Invite!Moves
<1>2. /\ invCall[c].phase \in CreatePhases /\ "complete" \in CreatePhases
      /\ invCall[c].revision \in 0..MaxRevision /\ invCall[c].own \in BOOLEAN
  BY <1>1, CreateOwn DEF CreatePhases
<1>3. PICK x \in Invite!CreateCalls : /\ invCall' = [invCall EXCEPT ![c] = x]
                              /\ x.phase = "complete" /\ x.key = invCall[c].key /\ x.own = invCall[c].own
  <2>1. PICK x : x = [invCall[c] EXCEPT !.phase = "complete"]
    OBVIOUS
  <2>2. invCall[c] \in Invite!CreateCalls
    BY <1>1, <1>2, InviteCallType
  <2>3. x \in Invite!CreateCalls /\ x.phase = "complete" /\ x.key = invCall[c].key /\ x.own = invCall[c].own
    BY <2>1, <2>2 DEF Invite!CreateCalls, CreatePhases
  <2> QED BY <1>1, <2>1, <2>3
<1>4. CallIsTrue(x)'
  BY <1>3 DEF CallIsTrue
<1>5. BecomesTrue(c, x)
  BY <1>3, <1>4 DEF BecomesTrue, AllCalls
<1>6. invCall'[c] = x /\ \A d \in Calls \ {c} : invCall'[d] = invCall[d]
  BY <1>1, <1>3, CallReplaced
<1>7. ASSUME NEW k \in Keys
      PROVE  CountsAt(k)'
  <2>1. mails[k] \in Nat /\ made'[k] = made[k] + 0 /\ links'[k] = links[k] + 0 /\ submitted' = submitted + 0
    BY <1>1 DEF Invite!TypeOK, Invite!Generations
  <2>2. ~Makes(x, k) /\ ~Mailing(x, k)
    BY <1>3 DEF Makes, Mailing
  <2>3. Shows(x, k) => Shows(invCall[c], k)
    BY <1>1, <1>3, Zenon DEF Shows
  <2>4. CASE k = invCall[c].key
    <3>1. mails'[k] = mails[k] + 1 /\ Mailing(invCall[c], k)
      BY <1>1, <2>4 DEF Invite!TypeOK, Mailing
    <3> QED BY <1>1, <1>6, <2>1, <2>2, <2>3, <3>1, CountsChange
  <2>5. CASE k # invCall[c].key
    <3>1. mails'[k] = mails[k] + 0
      BY <1>1, <2>1, <2>5 DEF Invite!TypeOK
    <3> QED BY <1>1, <1>6, <2>1, <2>2, <2>3, <3>1, CountsChange
  <2> QED BY <2>4, <2>5
<1> QED BY <1>3, <1>5, <1>7 DEF CountsHold, AllCalls

\* The link that is shown is of the call's own generation.
LEMMA CompleteMoves ==
    ASSUME InviteParameters, InviteInv, NEW c \in Calls, Invite!CompleteRegistrationInvitation(c)
    PROVE  CountsHold' /\ \E x \in AllCalls : BecomesTrue(c, x)
<1>1. /\ invCall[c].phase = "complete" /\ UNCHANGED <<made, mails, submitted>> /\ Invite!TypeOK /\ CountsHold
      /\ Invite!Ends(c)
  BY DEF Invite!CompleteRegistrationInvitation, InviteInv
<1>2. CASE UNCHANGED links
  BY <1>1, <1>2, EndMoves
<1>3. CASE invCall[c].own /\ links' = [links EXCEPT ![invCall[c].key] = @ + 1]
  <2>1. Invite!Idle \in AllCalls /\ BecomesTrue(c, Invite!Idle)
    BY <1>1, IdleIsTrue DEF AllCalls
  <2>2. invCall'[c] = Invite!Idle /\ \A d \in Calls \ {c} : invCall'[d] = invCall[d]
    BY <1>1, <2>1, CallReplaced DEF Invite!Ends, AllCalls
  <2>3. ASSUME NEW k \in Keys
        PROVE  CountsAt(k)'
    <3>1. links[k] \in Nat /\ made'[k] = made[k] + 0 /\ mails'[k] = mails[k] + 0 /\ submitted' = submitted + 0
      BY <1>1 DEF Invite!TypeOK, Invite!Generations
    <3>2. ~Makes(Invite!Idle, k) /\ ~Mailing(Invite!Idle, k) /\ ~Shows(Invite!Idle, k)
      BY <1>1, IdleIsTrue
    <3>3. CASE k = invCall[c].key
      <4>1. links'[k] = links[k] + 1
        BY <1>1, <1>3, <3>3 DEF Invite!TypeOK
      <4>2. Shows(invCall[c], k)
        BY <1>1, <1>3, <3>3 DEF Shows
      <4> QED BY <1>1, <2>2, <3>1, <3>2, <4>1, <4>2, CountsChange
    <3>4. CASE k # invCall[c].key
      <4>1. links'[k] = links[k] + 0
        BY <1>1, <1>3, <3>1, <3>4 DEF Invite!TypeOK
      <4> QED BY <1>1, <2>2, <3>1, <3>2, <4>1, CountsChange
    <3> QED BY <3>3, <3>4
  <2> QED BY <2>1, <2>3 DEF CountsHold
<1>4. \/ UNCHANGED links
      \/ invCall[c].own /\ links' = [links EXCEPT ![invCall[c].key] = @ + 1]
  <2>1. links = [links EXCEPT ![invCall[c].key] = links[invCall[c].key]]
    BY <1>1 DEF Invite!TypeOK
  <2> QED BY <2>1 DEF Invite!CompleteRegistrationInvitation
<1> QED BY <1>2, <1>3, <1>4

-----------------------------------------------------------------------------
(* Revocation: such a call makes, mails and shows nothing. *)

\* What a call of a revocation is, and how it moves.
LEMMA RevokeFields ==
    ASSUME Invite!TypeOK, NEW c \in Calls, invCall[c].phase \in RevokePhases
    PROVE  /\ invCall[c] \in Invite!RevokeCalls /\ invCall[c].key \in Keys /\ invCall[c].revision \in 0..MaxRevision
           /\ invCall[c].found \in Invite!Generations /\ invCall[c].result \in Invite!TerminalStatuses \cup {"unknown"}
<1>1. invCall[c] \in Invite!RevokeCalls
  BY InviteCallType
<1> QED BY <1>1 DEF Invite!RevokeCalls

\* Where a call of a revocation goes, and what it has seen then.
LEMMA RevokeMoves ==
    ASSUME InviteInv, UNCHANGED <<made, Invite!tokens, submitted>>, NEW c \in Calls,
           NEW x \in Invite!RevokeCalls, invCall' = [invCall EXCEPT ![c] = x], CallIsTrue(x)'
    PROVE  CountsHold' /\ \E y \in AllCalls : BecomesTrue(c, y)
<1>1. Invite!TypeOK /\ CountsHold /\ x \in AllCalls /\ BecomesTrue(c, x)
  BY DEF InviteInv, AllCalls, BecomesTrue
<1>2. x.phase \in RevokePhases
  BY DEF Invite!RevokeCalls, RevokePhases
<1>3. \A k \in Keys : ~Makes(x, k) /\ ~Mailing(x, k) /\ ~Shows(x, k)
  BY <1>2 DEF RevokePhases, Makes, Mailing, Shows
<1> QED BY <1>1, <1>3, Shrinks

LEMMA StartRevokeMoves ==
    ASSUME InviteParameters, InviteInv, NEW c \in Calls, NEW k \in Keys, Invite!StartRevoke(c, k)
    PROVE  CountsHold' /\ \E y \in AllCalls : BecomesTrue(c, y)
<1>1. Invite!TypeOK /\ UNCHANGED <<made, Invite!tokens, submitted>>
  BY DEF InviteInv, Invite!StartRevoke
<1>2. PICK x : x = [phase |-> "begin", key |-> k, revision |-> invRevision[k],
                    found |-> 0, result |-> "unknown"]
  OBVIOUS
<1>3. invRevision[k] \in 0..MaxRevision /\ 0 \in Invite!Generations
  BY <1>1 DEF Invite!TypeOK, Invite!Generations, InviteParameters
<1>4. x \in Invite!RevokeCalls /\ x.phase = "begin"
  BY <1>2, <1>3 DEF Invite!RevokeCalls
<1>5. CallIsTrue(x)'
  BY <1>4 DEF CallIsTrue
<1>6. invCall' = [invCall EXCEPT ![c] = x]
  BY <1>2 DEF Invite!StartRevoke, Invite!Starts
<1> QED BY <1>1, <1>4, <1>5, <1>6, RevokeMoves

LEMMA BeginMoves ==
    ASSUME InviteParameters, InviteInv, NEW c \in Calls, Invite!BeginRegistrationInvitationRevocation(c)
    PROVE  CountsHold' /\ \E y \in AllCalls : BecomesTrue(c, y)
<1>1. /\ Invite!TypeOK /\ UNCHANGED <<made, Invite!tokens, submitted>> /\ invCall[c].phase \in RevokePhases
  BY DEF InviteInv, Invite!BeginRegistrationInvitationRevocation, RevokePhases
<1>2. CASE Invite!Ends(c)
  BY <1>1, <1>2, EndMoves
<1>3. ASSUME NEW r \in 0..MaxRevision, invCall' = [invCall EXCEPT ![c].phase = "find", ![c].revision = r]
      PROVE  CountsHold' /\ \E y \in AllCalls : BecomesTrue(c, y)
  <2>1. PICK x : x = [invCall[c] EXCEPT !.phase = "find", !.revision = r]
    OBVIOUS
  <2>2. x \in Invite!RevokeCalls /\ x.phase = "find"
    BY <1>1, <2>1, RevokeFields DEF Invite!RevokeCalls
  <2>3. CallIsTrue(x)'
    BY <2>2 DEF CallIsTrue
  <2>4. invCall' = [invCall EXCEPT ![c] = x]
    BY <1>3, <2>1
  <2> QED BY <1>1, <2>2, <2>3, <2>4, RevokeMoves
<1>4. CASE Invite!MayBeginRevocation(invCall[c]) /\ invCall' = [invCall EXCEPT ![c].phase = "find", ![c].revision = invCall[c].revision + 1]
  <2>1. invCall[c].revision + 1 \in 0..MaxRevision
    BY <1>1, <1>4, RevokeFields DEF Invite!MayBeginRevocation, InviteParameters
  <2> QED BY <1>3, <1>4, <2>1
<1>5. CASE invCall' = [invCall EXCEPT ![c].phase = "find", ![c].revision = invRevision[invCall[c].key]]
  <2>1. invRevision[invCall[c].key] \in 0..MaxRevision
    BY <1>1, RevokeFields DEF Invite!TypeOK
  <2> QED BY <1>3, <1>5, <2>1
<1> QED BY <1>2, <1>4, <1>5 DEF Invite!BeginRegistrationInvitationRevocation

\* The result of a call: only "revoked" says anything.
LEMMA FindsMoves ==
    ASSUME InviteInv, UNCHANGED <<made, Invite!tokens, submitted>>, NEW c \in Calls, invCall[c].phase \in RevokePhases,
           NEW s \in Invite!TerminalStatuses \cup {"unknown"}, Invite!Finds(c, s), NEW k, k = invCall[c].key,
           s = "revoked" => \E g \in 1..made'[k] : Deleted(k, g)'
    PROVE  CountsHold' /\ \E y \in AllCalls : BecomesTrue(c, y)
<1>1. Invite!TypeOK
  BY DEF InviteInv
<1>2. PICK x : x = [invCall[c] EXCEPT !.phase = "finish", !.result = s]
  OBVIOUS
<1>3. x \in Invite!RevokeCalls /\ x.phase = "finish" /\ x.result = s /\ x.key = invCall[c].key
  BY <1>1, <1>2, RevokeFields DEF Invite!RevokeCalls
<1>7. CallIsTrue(x)'
  BY <1>3 DEF CallIsTrue, Deleted
<1>8. invCall' = [invCall EXCEPT ![c] = x]
  BY <1>2 DEF Invite!Finds
<1> QED BY <1>3, <1>7, <1>8, RevokeMoves

LEMMA FindMoves ==
    ASSUME InviteParameters, InviteInv, NEW c \in Calls, Invite!FindInvitation(c)
    PROVE  CountsHold' /\ \E y \in AllCalls : BecomesTrue(c, y)
<1>1. /\ Invite!TypeOK /\ UNCHANGED <<made, live, gone, Invite!tokens, submitted>> /\ invCall[c].phase \in RevokePhases
  BY DEF InviteInv, Invite!FindInvitation, RevokePhases
<1>2. PICK k \in Keys : k = invCall[c].key
  BY <1>1, RevokeFields
<1>3. CASE live[k] = 0
  <2>1. Invite!Finds(c, "absent") /\ "absent" \in Invite!TerminalStatuses \cup {"unknown"}
    BY <1>2, <1>3 DEF Invite!FindInvitation, Invite!TerminalStatuses
  <2> QED BY <1>1, <1>2, <2>1, FindsMoves
<1>4. CASE live[k] # 0
  <2>1. PICK x : x = [invCall[c] EXCEPT !.phase = "delete", !.found = live[k]]
    OBVIOUS
  <2>2. live[k] \in Invite!Generations
    BY <1>1 DEF Invite!TypeOK
  <2>3. x \in Invite!RevokeCalls /\ x.phase = "delete" /\ x.found = live[k] /\ x.key = k
    BY <1>1, <1>2, <2>1, <2>2, RevokeFields DEF Invite!RevokeCalls
  <2>4. live[k] \in 1..made'[k]
    BY <1>1, <1>4 DEF InviteInv, GenerationsAgree, Invite!TypeOK, Invite!Generations
  <2>5. CallIsTrue(x)'
    BY <2>3, <2>4 DEF CallIsTrue
  <2>6. invCall' = [invCall EXCEPT ![c] = x]
    BY <1>2, <1>4, <2>1 DEF Invite!FindInvitation
  <2> QED BY <1>1, <2>3, <2>5, <2>6, RevokeMoves
<1> QED BY <1>3, <1>4

\* The deletion is of the generation that was found, which was live until now.
LEMMA DeleteMoves ==
    ASSUME InviteParameters, InviteInv, NEW c \in Calls, Invite!DeleteInvitation(c)
    PROVE  CountsHold' /\ \E y \in AllCalls : BecomesTrue(c, y)
<1>1. /\ Invite!TypeOK /\ UNCHANGED <<made, gone, Invite!tokens, submitted>> /\ invCall[c].phase \in RevokePhases
      /\ invCall[c].phase = "delete"
  BY DEF InviteInv, Invite!DeleteInvitation, RevokePhases
<1>2. PICK k \in Keys : k = invCall[c].key
  BY <1>1, RevokeFields
<1>3. CASE live[k] # invCall[c].found
  <2>1. Invite!Finds(c, "absent") /\ "absent" \in Invite!TerminalStatuses \cup {"unknown"}
    BY <1>2, <1>3 DEF Invite!DeleteInvitation, Invite!TerminalStatuses
  <2> QED BY <1>1, <1>2, <2>1, FindsMoves
<1>4. CASE live[k] = invCall[c].found
  <2>1. PICK x : x = [invCall[c] EXCEPT !.phase = "readback"]
    OBVIOUS
  <2>2. x \in Invite!RevokeCalls /\ x.phase = "readback" /\ x.found = live[k] /\ x.key = k
    BY <1>1, <1>2, <1>4, <2>1, RevokeFields DEF Invite!RevokeCalls
  <2>3. live[k] \in 1..made[k] /\ live[k] \notin gone[k]
    BY <1>1, <1>2, <1>4 DEF InviteInv, CallsAreTrue, CallIsTrue, GenerationsAgree
  <2>4. live'[k] = 0
    BY <1>1, <1>2, <1>4 DEF Invite!DeleteInvitation, Invite!TypeOK
  <2>5. live[k] \in 1..made'[k] /\ live[k] \notin gone'[k] /\ live[k] # live'[k]
    BY <1>1, <2>3, <2>4 DEF Invite!TypeOK, Invite!Generations
  <2>6. CallIsTrue(x)'
    BY <2>2, <2>5 DEF CallIsTrue, Deleted
  <2>7. invCall' = [invCall EXCEPT ![c] = x]
    BY <1>2, <1>4, <2>1 DEF Invite!DeleteInvitation, Invite!Moves
  <2> QED BY <1>1, <2>2, <2>6, <2>7, RevokeMoves
<1> QED BY <1>3, <1>4

LEMMA ReadBackMoves ==
    ASSUME InviteParameters, InviteInv, NEW c \in Calls, Invite!ReadBackInvitation(c)
    PROVE  CountsHold' /\ \E y \in AllCalls : BecomesTrue(c, y)
<1>1. /\ Invite!TypeOK /\ UNCHANGED <<made, live, gone, Invite!tokens, submitted>> /\ invCall[c].phase \in RevokePhases
      /\ invCall[c].phase = "readback"
  BY DEF InviteInv, Invite!ReadBackInvitation, RevokePhases
<1>2. PICK k \in Keys : k = invCall[c].key
  BY <1>1, RevokeFields
<1>3. \E g \in 1..made'[k] : Deleted(k, g)'
  <2>1. Deleted(k, invCall[c].found)
    BY <1>1, <1>2 DEF InviteInv, CallsAreTrue, CallIsTrue
  <2> QED BY <1>1, <2>1 DEF Deleted
<1>4. "unknown" \in Invite!TerminalStatuses \cup {"unknown"} /\ "revoked" \in Invite!TerminalStatuses \cup {"unknown"}
  BY DEF Invite!TerminalStatuses
<1>5. Invite!Finds(c, "unknown") \/ Invite!Finds(c, "revoked")
  BY DEF Invite!ReadBackInvitation
<1> QED BY <1>1, <1>2, <1>3, <1>4, <1>5, FindsMoves

LEMMA RevokeFailureMoves ==
    ASSUME InviteParameters, InviteInv, NEW c \in Calls, Invite!RevokeFailure(c)
    PROVE  CountsHold' /\ \E y \in AllCalls : BecomesTrue(c, y)
<1>1. /\ Invite!TypeOK /\ UNCHANGED <<made, Invite!tokens, submitted>> /\ invCall[c].phase \in RevokePhases
      /\ Invite!Finds(c, "unknown")
  BY DEF InviteInv, Invite!RevokeFailure, RevokePhases
<1>2. PICK k : k = invCall[c].key
  OBVIOUS
<1> QED BY <1>1, <1>2, FindsMoves

-----------------------------------------------------------------------------
(* Invitations: every step keeps the invariant. *)

\* A row is called revoked only by a call that has seen the deletion.
LEMMA RevokedRightly ==
    ASSUME InviteInv, [Invite!Next]_(Invite!vars), NEW k \in Keys
    PROVE  invStatus'[k] # "revoked" \/ invStatus[k] = "revoked" \/ \E g \in 1..made[k] : Deleted(k, g)
<1>1. Invite!TypeOK
  BY DEF InviteInv
<1>2. CASE UNCHANGED invStatus
  BY <1>2
<1>3. ASSUME NEW l, NEW s, s # "revoked", invStatus' = [invStatus EXCEPT ![l] = s]
      PROVE  invStatus'[k] # "revoked" \/ invStatus[k] = "revoked"
  BY <1>1, <1>3 DEF Invite!TypeOK
<1>4. ASSUME NEW c \in Calls, Invite!ReserveRegistrationInvitation(c)
      PROVE  invStatus'[k] # "revoked" \/ invStatus[k] = "revoked"
  BY <1>3, <1>4 DEF Invite!ReserveRegistrationInvitation
<1>5. ASSUME NEW c \in Calls, \/ Invite!RecordRegistrationInvitationFailure(c) \/ Invite!CompleteRegistrationInvitation(c)
                              \/ Invite!BeginRegistrationInvitationRevocation(c)
      PROVE  invStatus'[k] # "revoked" \/ invStatus[k] = "revoked"
  BY <1>3, <1>5 DEF Invite!RecordRegistrationInvitationFailure,
       Invite!CompleteRegistrationInvitation,
         Invite!BeginRegistrationInvitationRevocation, Invite!Changes
<1>6. ASSUME NEW c \in Calls, Invite!CompleteRegistrationInvitationRevocation(c)
      PROVE  invStatus'[k] # "revoked" \/ invStatus[k] = "revoked" \/ \E g \in 1..made[k] : Deleted(k, g)
  <2>1. invCall[c].phase = "finish"
    BY <1>6 DEF Invite!CompleteRegistrationInvitationRevocation
  <2>2. PICK l \in Keys : l = invCall[c].key
    BY <1>1, <2>1, RevokeFields DEF RevokePhases
  <2>3. CASE UNCHANGED Invite!row
    BY <2>3
  <2>4. CASE Invite!Changes(l, invCall[c].result) /\ invCall[c].result # "revoked"
    BY <1>3, <2>4 DEF Invite!Changes
  <2>5. CASE invCall[c].result = "revoked" /\ k # l /\ Invite!Changes(l, invCall[c].result)
    BY <1>1, <2>5 DEF Invite!Changes, Invite!TypeOK
  <2>6. CASE invCall[c].result = "revoked" /\ k = l
    BY <2>1, <2>2, <2>6 DEF InviteInv, CallsAreTrue, CallIsTrue
  <2> QED BY <1>6, <2>2, <2>3, <2>4, <2>5, <2>6
       DEF Invite!CompleteRegistrationInvitationRevocation
<1> QED BY <1>2, <1>4, <1>5, <1>6
        DEF Invite!Next, Invite!vars, Invite!CallStep, Invite!StartCreate, Invite!StartRevoke,
             Invite!AdoptInvitation, Invite!CreateInvitation, Invite!SendInvitation,
            Invite!FindInvitation, Invite!DeleteInvitation, Invite!ReadBackInvitation, Invite!CreateFailure, Invite!RevokeFailure,
            Invite!Interrupt, Invite!InvitationEnds

LEMMA CallsMove ==
    ASSUME InviteParameters, InviteInv, Invite!Next
    PROVE  CountsHold' /\ (UNCHANGED invCall \/ \E c \in Calls : \E x \in AllCalls : BecomesTrue(c, x))
<1>1. ASSUME NEW c \in Calls, Invite!CallStep(c)
      PROVE  CountsHold' /\ \E x \in AllCalls : BecomesTrue(c, x)
  <2>1. CASE Invite!RecordRegistrationInvitationFailure(c) \/ Invite!CompleteRegistrationInvitationRevocation(c)
    BY <2>1, EndMoves DEF Invite!RecordRegistrationInvitationFailure,
         Invite!CompleteRegistrationInvitationRevocation
  <2> QED BY <1>1, <2>1, ReserveMoves, AdoptMoves, CreateMoves, SendMoves, CompleteMoves,
       BeginMoves,
             FindMoves, DeleteMoves, ReadBackMoves DEF Invite!CallStep
<1>2. ASSUME NEW c \in Calls, Invite!Interrupt(c)
      PROVE  CountsHold' /\ \E x \in AllCalls : BecomesTrue(c, x)
  BY <1>2, EndMoves DEF Invite!Interrupt
<1>3. ASSUME NEW k \in Keys, Invite!InvitationEnds(k)
      PROVE  CountsHold' /\ UNCHANGED invCall
  BY <1>3 DEF Invite!InvitationEnds, InviteInv, CountsHold, CountsAt, Makers, Mailers, Showers
<1>4. ASSUME NEW c \in Calls, \/ Invite!CallStep(c) \/ Invite!CreateFailure(c) \/ Invite!RevokeFailure(c) \/ Invite!Interrupt(c)
                              \/ \E k \in Keys : Invite!StartCreate(c, k) \/ Invite!StartRevoke(c, k)
      PROVE  CountsHold' /\ \E x \in AllCalls : BecomesTrue(c, x)
  BY <1>1, <1>2, <1>4, CreateFailureMoves, RevokeFailureMoves, StartCreateMoves, StartRevokeMoves
<1> QED BY <1>3, <1>4 DEF Invite!Next

LEMMA InitHolds ==
    ASSUME InviteParameters, Invite!Init
    PROVE  InviteInv
<1>1. Invite!TypeOK
  BY DEF InviteParameters, Invite!Init, Invite!TypeOK, Invite!Generations, Invite!Statuses
<1>2. \A k \in Keys : Makers(k) = {} /\ Mailers(k) = {} /\ Showers(k) = {}
  BY DEF Invite!Init, Invite!Idle, Makers, Mailers, Showers, Makes, Mailing, Shows
<1>3. CountsHold
  <2>1. IsFiniteSet({}) /\ Cardinality({}) = 0
    BY FS_EmptySet
  <2>2. \A k \in Keys : made[k] = 0 /\ mails[k] = 0 /\ links[k] = 0 /\ submitted = 0
    BY DEF Invite!Init
  <2> QED BY <1>2, <2>1, <2>2 DEF CountsHold, CountsAt
<1>4. GenerationsAgree /\ Invite!RevokedWasDeleted
  BY DEF Invite!Init, GenerationsAgree, Invite!RevokedWasDeleted
<1>5. CallsAreTrue
  BY DEF Invite!Init, Invite!Idle, CallsAreTrue, CallIsTrue
<1> QED BY <1>1, <1>3, <1>4, <1>5 DEF InviteInv

LEMMA StepHolds ==
    ASSUME InviteParameters, InviteInv, [Invite!Next]_(Invite!vars)
    PROVE  InviteInv'
<1>1. Invite!TypeOK /\ CountsHold /\ GenerationsAgree /\ CallsAreTrue /\ Invite!RevokedWasDeleted
  BY DEF InviteInv
<1>2. CASE UNCHANGED Invite!vars
  <2>1. Invite!TypeOK'
    BY <1>1, <1>2 DEF Invite!TypeOK, Invite!vars
  <2>2. CountsHold'
    BY <1>1, <1>2 DEF Invite!vars, CountsHold, CountsAt, Makers, Mailers, Showers
  <2>3. GenerationsAgree' /\ CallsAreTrue' /\ Invite!RevokedWasDeleted'
    BY <1>1, <1>2 DEF Invite!vars, GenerationsAgree, CallsAreTrue, CallIsTrue, Deleted,
         Invite!RevokedWasDeleted
  <2> QED BY <2>1, <2>2, <2>3 DEF InviteInv
<1>3. CASE Invite!Next
  <2>1. CountsHold' /\ (UNCHANGED invCall \/ \E c \in Calls : \E x \in AllCalls : BecomesTrue(c, x))
    BY <1>3, CallsMove
  <2>2. /\ live' \in [Keys -> Nat] /\ made' \in [Keys -> Nat] /\ gone' \in [Keys -> SUBSET Nat]
        /\ \A k \in Keys : RemoteMoves(k)
    BY <1>1, RemoteStep
  <2>3. GenerationsAgree'
    BY <1>1, <2>2, GenerationsStep
  <2>4. \A k \in Keys : \/ invStatus'[k] # "revoked" \/ invStatus[k] = "revoked"
                        \/ \E g \in 1..made[k] : Deleted(k, g)
    BY RevokedRightly
  <2>5. CallsAreTrue' /\ Invite!RevokedWasDeleted'
    <3>1. CASE UNCHANGED invCall
      BY <1>1, <2>2, <2>4, <3>1, StillTrue
    <3>2. ASSUME NEW c \in Calls, NEW x \in AllCalls, BecomesTrue(c, x)
          PROVE  CallsAreTrue' /\ Invite!RevokedWasDeleted'
      BY <1>1, <2>2, <2>4, <3>2, TrueStep DEF BecomesTrue
    <3> QED BY <2>1, <3>1, <3>2
  <2>6. invStatus' \in [Keys -> Invite!Statuses \cup {"none"}] /\ invRevision' \in [Keys -> 0..MaxRevision]
    BY <1>1, RowType
  <2>7. /\ mails' \in [Keys -> Nat] /\ links' \in [Keys -> Nat] /\ asked' \subseteq Keys
        /\ submitted' \in 0..MaxSubmissions /\ invFailures' \in 0..MaxFailures
        /\ invInterrupts' \in 0..MaxInterrupts
    BY <1>1, BoundsType
  <2>8. \A k \in Keys : /\ made'[k] \in Invite!Generations /\ live'[k] \in Invite!Generations
                        /\ gone'[k] \in SUBSET (1..MaxSubmissions)
    <3> SUFFICES ASSUME NEW k \in Keys
                 PROVE  /\ made'[k] \in Invite!Generations /\ live'[k] \in Invite!Generations
                        /\ gone'[k] \in SUBSET (1..MaxSubmissions)
      OBVIOUS
    <3>1. IsFiniteSet(Makers(k)') /\ made'[k] + Cardinality(Makers(k)') <= submitted'
      BY <2>1 DEF CountsHold, CountsAt
    <3>2. Cardinality(Makers(k)') \in Nat
      BY <3>1, FS_CardinalityType
    <3>3. made'[k] \in Nat /\ submitted' \in Nat /\ submitted' <= MaxSubmissions /\ MaxSubmissions \in Nat
      BY <2>2, <2>7 DEF InviteParameters
    <3>4. made'[k] <= MaxSubmissions
      BY <3>1, <3>2, <3>3
    <3>5. live'[k] \in Nat /\ live'[k] <= made'[k] /\ gone'[k] \subseteq 1..made'[k]
      BY <2>2, <2>3 DEF GenerationsAgree
    <3> QED BY <3>3, <3>4, <3>5 DEF Invite!Generations
  <2>9. /\ live' \in [Keys -> Invite!Generations] /\ made' \in [Keys -> Invite!Generations]
        /\ gone' \in [Keys -> SUBSET (1..MaxSubmissions)]
    BY <2>2, <2>8
  <2>10. invCall' \in [Calls -> Invite!CreateCalls \cup Invite!RevokeCalls \cup {Invite!Idle}]
    <3>1. CASE UNCHANGED invCall
      BY <1>1, <3>1 DEF Invite!TypeOK
    <3>2. ASSUME NEW c \in Calls, NEW x \in AllCalls, BecomesTrue(c, x)
          PROVE  invCall' \in [Calls -> Invite!CreateCalls \cup Invite!RevokeCalls \cup {Invite!Idle}]
      BY <1>1, <3>2, CallReplaced DEF BecomesTrue, AllCalls
    <3> QED BY <2>1, <3>1, <3>2
  <2>11. Invite!TypeOK'
    BY <2>6, <2>7, <2>9, <2>10 DEF Invite!TypeOK
  <2> QED BY <2>1, <2>3, <2>5, <2>11 DEF InviteInv
<1> QED BY <1>2, <1>3

-----------------------------------------------------------------------------
(* Invitations: the theorems. *)

LEMMA Invariant ==
    ASSUME InviteParameters
    PROVE  Invite!Spec => []InviteInv
<1>1. Invite!Init => InviteInv
  BY InitHolds
<1>2. InviteInv /\ [Invite!Next]_(Invite!vars) => InviteInv'
  BY StepHolds
<1> QED BY <1>1, <1>2, PTL DEF Invite!Spec

\* Rows, invitations and calls stay what they are: the numbers of the remote
\* invitations by the counting of the calls that may still make one.
THEOREM InvitationTypes ==
    ASSUME InviteParameters
    PROVE  Invite!Spec => []Invite!TypeOK
<1>1. InviteInv => Invite!TypeOK
  BY DEF InviteInv
<1> QED BY <1>1, Invariant, PTL

\* What is called revoked was deleted by the Board before anybody could use
\* it, and a token leaves the Board at most once by mail and once by a page,
\* whatever is retried, lost or answered with an error.
THEOREM InvitationsAreExactAlone ==
    ASSUME InviteParameters
    PROVE  Invite!Spec => []Invite!InvitationsAreExact
<1>1. InviteInv => Invite!RevokedWasDeleted
  BY DEF InviteInv
<1>2. InviteInv => Invite!TokenLeavesOnce
  <2> SUFFICES ASSUME InviteInv, NEW k \in Keys
               PROVE  mails[k] <= made[k] /\ links[k] <= made[k]
    BY DEF Invite!TokenLeavesOnce
  <2>1. /\ IsFiniteSet(Mailers(k)) /\ mails[k] + Cardinality(Mailers(k)) <= made[k]
        /\ IsFiniteSet(Showers(k)) /\ links[k] + Cardinality(Showers(k)) <= made[k]
    BY DEF InviteInv, CountsHold, CountsAt
  <2>2. Cardinality(Mailers(k)) \in Nat /\ Cardinality(Showers(k)) \in Nat
    BY <2>1, FS_CardinalityType
  <2>3. made[k] \in Nat /\ mails[k] \in Nat /\ links[k] \in Nat
    BY DEF InviteInv, Invite!TypeOK, Invite!Generations
  <2> QED BY <2>1, <2>2, <2>3
<1>3. InviteInv => Invite!InvitationsAreExact
  BY <1>1, <1>2 DEF Invite!InvitationsAreExact
<1> QED BY <1>3, Invariant, PTL

\* A row that says revoked or absent is never changed again: every write of a
\* call asks for the state and the revision it started from.
THEOREM TerminalIsFinalAlways ==
    ASSUME InviteParameters
    PROVE  Invite!Spec => Invite!TerminalIsFinal
<1>1. ASSUME Invite!TypeOK, [Invite!Next]_(Invite!vars), NEW k \in Keys, invStatus[k] \in Invite!TerminalStatuses
      PROVE  UNCHANGED <<invStatus[k], invRevision[k]>>
  <2>1. CASE UNCHANGED Invite!row
    BY <2>1
  <2>2. ASSUME NEW l, NEW s, l # k, invStatus' = [invStatus EXCEPT ![l] = s],
               \E r : invRevision' = [invRevision EXCEPT ![l] = r]
        PROVE  UNCHANGED <<invStatus[k], invRevision[k]>>
    BY <1>1, <2>2 DEF Invite!TypeOK
  <2>3. invStatus[k] # "none" /\ invStatus[k] \notin Invite!Resumable \cup {"active", "revoke_required"}
    BY <1>1 DEF Invite!TerminalStatuses, Invite!Resumable
  <2>4. ASSUME NEW c \in Calls, Invite!ReserveRegistrationInvitation(c)
        PROVE  UNCHANGED <<invStatus[k], invRevision[k]>>
    BY <2>1, <2>2, <2>3, <2>4 DEF Invite!ReserveRegistrationInvitation
  <2>5. ASSUME NEW c \in Calls, Invite!RecordRegistrationInvitationFailure(c) \/ Invite!CompleteRegistrationInvitation(c)
        PROVE  UNCHANGED <<invStatus[k], invRevision[k]>>
    BY <2>1, <2>2, <2>3, <2>5
       DEF Invite!RecordRegistrationInvitationFailure, Invite!CompleteRegistrationInvitation,
            Invite!OwnsReservation, Invite!Changes
  <2>6. ASSUME NEW c \in Calls, Invite!BeginRegistrationInvitationRevocation(c)
        PROVE  UNCHANGED <<invStatus[k], invRevision[k]>>
    <3>1. CASE Invite!MayBeginRevocation(invCall[c]) /\ Invite!Changes(invCall[c].key, "revoke_required")
      <4>1. invCall[c].key # k
        BY <2>3, <3>1 DEF Invite!MayBeginRevocation
      <4>2. /\ invStatus' = [invStatus EXCEPT ![invCall[c].key] = "revoke_required"]
            /\ \E r : invRevision' = [invRevision EXCEPT ![invCall[c].key] = r]
        BY <3>1 DEF Invite!Changes
      <4> QED BY <2>2, <4>1, <4>2
    <3> QED BY <2>1, <2>6, <3>1 DEF Invite!BeginRegistrationInvitationRevocation
  <2>7. ASSUME NEW c \in Calls, Invite!CompleteRegistrationInvitationRevocation(c)
        PROVE  UNCHANGED <<invStatus[k], invRevision[k]>>
    BY <2>1, <2>2, <2>3, <2>7
       DEF Invite!CompleteRegistrationInvitationRevocation, Invite!Changes
  <2> QED BY <1>1, <2>1, <2>4, <2>5, <2>6, <2>7
          DEF Invite!Next, Invite!vars, Invite!CallStep, Invite!StartCreate, Invite!StartRevoke,
               Invite!AdoptInvitation, Invite!CreateInvitation, Invite!SendInvitation,
              Invite!FindInvitation, Invite!DeleteInvitation, Invite!ReadBackInvitation, Invite!CreateFailure, Invite!RevokeFailure,
              Invite!Interrupt, Invite!InvitationEnds
<1>2. Invite!TypeOK /\ [Invite!Next]_(Invite!vars) =>
        [\A k \in Keys : invStatus[k] \in Invite!TerminalStatuses => UNCHANGED <<invStatus[k], invRevision[k]>>]_(Invite!vars)
  BY <1>1
<1> QED BY <1>2, InvitationTypes, PTL DEF Invite!Spec, Invite!TerminalIsFinal

-----------------------------------------------------------------------------
(* The protocols side by side.  In a behaviour of PartSpec each module sees  *)
(* its own steps and stutters at those of the others, so that what is proved *)
(* about the module alone holds.                                             *)

LEMMA PartsAreTheirOwn == PartSpec => Spec /\ Invite!Spec /\ Identity!Spec
<1>1. PartInit => Init /\ Invite!Init /\ Identity!Init
  BY DEF PartInit
<1>2. [PartNext]_partVars => [Next]_vars
  BY DEF PartNext, partVars
<1>3. [PartNext]_partVars => [Invite!Next]_(Invite!vars)
  BY DEF PartNext, partVars, inviteVars, Invite!vars
<1>4. [PartNext]_partVars => [Identity!Next]_(Identity!vars)
  BY DEF PartNext, partVars, identityVars, Identity!vars, Identity!row, Identity!bounds
<1> QED
  BY <1>1, <1>2, <1>3, <1>4, PTL DEF PartSpec, Spec, Invite!Spec, Identity!Spec

LEMMA PartsHaveParameters == InviteParameters
  BY PartsAssumption, BoundsAssumption DEF InviteParameters

\* Suspensions: what is proved about them in a module of their own.
LEMMA SameModeration ==
    /\ Identity!Init <=> Moderated!Init
    /\ Identity!Next <=> Moderated!Next
    /\ Identity!vars = Moderated!vars
    /\ Identity!TypeOK <=> Moderated!TypeOK
<1>1. /\ Identity!Init <=> Moderated!Init
      /\ Identity!Next <=> Moderated!Next
      /\ Identity!vars = Moderated!vars
  BY DEF Identity!Init, Moderated!Init, Identity!Next, Moderated!Next, Identity!vars,
       Moderated!vars, Identity!Suspensions, Moderated!Suspensions,
       Identity!Suspendable, Moderated!Suspendable,
       Identity!EffectivelySuspended, Moderated!EffectivelySuspended,
       Identity!ActiveAdministrators, Moderated!ActiveAdministrators, Identity!InGoodStanding,
       Moderated!InGoodStanding, Identity!Workers, Moderated!Workers, Identity!Idle,
       Moderated!Idle, Identity!BeginRequest, Moderated!BeginRequest, Identity!RequestStep,
       Moderated!RequestStep, Identity!ReconcilerStep, Moderated!ReconcilerStep,
       Identity!RemoteFailure, Moderated!RemoteFailure, Identity!CreateInitialSession,
       Moderated!CreateInitialSession, Identity!RevokeSession, Moderated!RevokeSession,
       Identity!SuspensionExpires, Moderated!SuspensionExpires, Identity!BackoffElapses,
       Moderated!BackoffElapses, Identity!Interrupt, Moderated!Interrupt, Identity!row,
       Moderated!row, Identity!bounds, Moderated!bounds, Identity!SuspendUser,
       Moderated!SuspendUser, Identity!AuthorizeReinstatement, Moderated!AuthorizeReinstatement,
       Identity!BeginManualIdentityReconciliation, Moderated!BeginManualIdentityReconciliation,
       Identity!BeginIdentityReinstatement, Moderated!BeginIdentityReinstatement,
       Identity!LoadSuspendedIdentityTarget, Moderated!LoadSuspendedIdentityTarget,
       Identity!RemoteStep, Moderated!RemoteStep, Identity!RecordIdentityReconciliationFailure,
       Moderated!RecordIdentityReconciliationFailure, Identity!CompleteIdentityRemoval,
       Moderated!CompleteIdentityRemoval, Identity!AuthorizeCompletion,
       Moderated!AuthorizeCompletion, Identity!CompleteIdentityReinstatement,
       Moderated!CompleteIdentityReinstatement, Identity!ClaimExpiredIdentityReconciliations,
       Moderated!ClaimExpiredIdentityReconciliations, Identity!HandleClaim,
       Moderated!HandleClaim, Identity!RecordExpiredIdentityReconciliationFailure,
       Moderated!RecordExpiredIdentityReconciliationFailure,
       Identity!CompleteExpiredIdentityReconciliation,
       Moderated!CompleteExpiredIdentityReconciliation, Identity!RemoteEffect,
       Moderated!RemoteEffect, Identity!MayModerate, Moderated!MayModerate,
       Identity!SuspendUserAndAudit, Moderated!SuspendUserAndAudit, Identity!Begin,
       Moderated!Begin, Identity!NewTask, Moderated!NewTask, Identity!RequiredStates,
       Moderated!RequiredStates, Identity!Advance, Moderated!Advance, Identity!Conflict,
       Moderated!Conflict, Identity!OwnsRow, Moderated!OwnsRow, Identity!Ends, Moderated!Ends,
       Identity!RemoteCall, Moderated!RemoteCall, Identity!RemoteVerify, Moderated!RemoteVerify,
       Identity!CanRecordFailure, Moderated!CanRecordFailure, Identity!CanCompleteRemoval,
       Moderated!CanCompleteRemoval, Identity!CanCompleteReinstatement,
       Moderated!CanCompleteReinstatement, Identity!CanCommitReinstatement,
       Moderated!CanCommitReinstatement, Identity!ExpiredCandidates,
       Moderated!ExpiredCandidates, Identity!Superseded, Moderated!Superseded,
       Identity!CanCompleteExpired, Moderated!CanCompleteExpired, Identity!Left, Moderated!Left,
       Identity!Joined, Moderated!Joined, Identity!Cardinality, Moderated!Cardinality
<1>2. Identity!TypeOK <=> Moderated!TypeOK
  BY DEF Identity!TypeOK, Moderated!TypeOK, Identity!Suspensions, Moderated!Suspensions,
       Identity!SyncStates, Moderated!SyncStates, Identity!GroupNames, Moderated!GroupNames,
       Identity!Workers, Moderated!Workers, Identity!ActiveTasks, Moderated!ActiveTasks,
       Identity!Idle, Moderated!Idle, Identity!RequiredStates, Moderated!RequiredStates
<1> QED BY <1>1, <1>2

LEMMA SuspensionTypes == Identity!Spec => []Identity!TypeOK
<1>1. Moderated!Spec => []Moderated!TypeOK
  BY PartsAssumption, BoundsAssumption, Moderated!TypeCorrect DEF IsFiniteSet, Moderated!IsFiniteSet
<1>2. Identity!Init => Moderated!Init
  BY SameModeration
<1>3. [Identity!Next]_(Identity!vars) => [Moderated!Next]_(Moderated!vars)
  BY SameModeration
     DEF Identity!vars, Moderated!vars, Identity!row, Moderated!row, Identity!bounds, Moderated!bounds
<1>4. Moderated!TypeOK => Identity!TypeOK
  BY SameModeration
<1> QED BY <1>1, <1>2, <1>3, <1>4, PTL DEF Identity!Spec, Moderated!Spec

\* Rows, groups, calls and claims keep their types, whichever protocol moves.
THEOREM PartTypeOKAlways == PartSpec => []PartTypeOK
<1>1. Invite!Spec => []Invite!TypeOK
  BY PartsHaveParameters, InvitationTypes
<1>2. TypeOK /\ Invite!TypeOK /\ Identity!TypeOK => PartTypeOK
  BY DEF PartTypeOK
<1> QED BY <1>1, <1>2, RegistrationTypes, SuspensionTypes, PartsAreTheirOwn, PTL

\* What is called revoked was deleted by the Board before anybody could use it,
\* and no token leaves twice, with decisions and suspensions beside it.
THEOREM InvitationsAreExactAlways == PartSpec => []InvitationsAreExact
<1>1. Invite!Spec => []Invite!InvitationsAreExact
  BY PartsHaveParameters, InvitationsAreExactAlone
<1>2. Invite!InvitationsAreExact => InvitationsAreExact
  BY DEF InvitationsAreExact
<1> QED
  BY <1>1, <1>2, PartsAreTheirOwn, PTL

\* No late completion takes back a decision or an invitation's end.
THEOREM OutcomesStandAlways == PartSpec => OutcomesStand
<1>1. Spec => DecisionIsNeverOvertaken
  BY DecisionStands
<1>2. Invite!Spec => Invite!TerminalIsFinal
  BY PartsHaveParameters, TerminalIsFinalAlways
<1> QED
  BY <1>1, <1>2, PartsAreTheirOwn, PTL DEF OutcomesStand
=============================================================================
