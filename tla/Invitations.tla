---------------------------- MODULE Invitations ----------------------------
(***************************************************************************)
(* Registration invitations.  An administrator creates a single-use        *)
(* Authentik invitation under the idempotency key of the form, and may     *)
(* revoke it with a signed handle of the list page.  Both are three-phase  *)
(* calls: reserve or begin in the Board database, act on Authentik outside *)
(* any transaction, and commit the outcome if the row still has the        *)
(* revision the call started from.  A form may be submitted again at any   *)
(* time, also while its first submission runs.                             *)
(*                                                                         *)
(* A call that loses its administrator's authority ends where a call that  *)
(* is interrupted ends.  Authentik refuses a second live invitation of one *)
(* name; a new invitation under a name that is free is a new generation.   *)
(***************************************************************************)
EXTENDS Naturals, FiniteSets

CONSTANTS
    Keys,           \* idempotency keys of invitation forms
    Calls,          \* slots for calls that run concurrently
    Deliveries,     \* the choices of the form: a subset of {"mail", "complete"}
    MaxRevision,    \* largest administration revision
    MaxSubmissions, \* bound: times the creation forms may be submitted
    MaxFailures,    \* bound: remote calls that may fail
    MaxInterrupts   \* bound: calls that may be lost

VARIABLES
    status,    \* registration_invitations.transition_state; "none" without a row
    revision,  \* registration_invitations.administration_revision
    live,      \* the generation that is live in Authentik, 0 for none
    made,      \* generations made so far
    gone,      \* generations that were consumed or expired
    mails,     \* invitation mails handed to SMTP
    links,     \* one-time links shown to an administrator
    asked,     \* keys somebody has asked to revoke
    call,
    submitted, failures, interrupts  \* consumed parts of the bounds

row == <<status, revision>>
remote == <<live, made, gone>>
tokens == <<mails, links>>
bounds == <<submitted, failures, interrupts>>
vars == <<row, remote, tokens, asked, call, bounds>>

Statuses == {"creating", "active", "unknown", "revoke_required", "revoked", "absent"}
TerminalStatuses == {"revoked", "absent"}
Resumable == {"creating", "unknown"}
Generations == 0..MaxSubmissions

Idle == [phase |-> "idle"]
\* own says that the call made the generation, and did not adopt it.
CreateCalls ==
    [phase : {"reserve", "list", "create", "mail", "record", "complete"},
     key : Keys, revision : 0..MaxRevision, own : BOOLEAN]
RevokeCalls ==
    [phase : {"begin", "find", "delete", "readback", "finish"},
     key : Keys, revision : 0..MaxRevision, found : Generations,
     result : TerminalStatuses \cup {"unknown"}]

TypeOK ==
    /\ status \in [Keys -> Statuses \cup {"none"}]
    /\ revision \in [Keys -> 0..MaxRevision]
    /\ live \in [Keys -> Generations]
    /\ made \in [Keys -> Generations]
    /\ gone \in [Keys -> SUBSET (1..MaxSubmissions)]
    /\ mails \in [Keys -> Nat] /\ links \in [Keys -> Nat]
    /\ asked \subseteq Keys
    /\ call \in [Calls -> CreateCalls \cup RevokeCalls \cup {Idle}]
    /\ submitted \in 0..MaxSubmissions
    /\ failures \in 0..MaxFailures
    /\ interrupts \in 0..MaxInterrupts

Init ==
    /\ status = [k \in Keys |-> "none"]
    /\ revision = [k \in Keys |-> 0]
    /\ live = [k \in Keys |-> 0]
    /\ made = [k \in Keys |-> 0]
    /\ gone = [k \in Keys |-> {}]
    /\ mails = [k \in Keys |-> 0] /\ links = [k \in Keys |-> 0]
    /\ asked = {}
    /\ call = [c \in Calls |-> Idle]
    /\ submitted = 0 /\ failures = 0 /\ interrupts = 0

-----------------------------------------------------------------------------
(* The list page, which the creation form and every handle come from. *)

\* The page is refused while a terminal row still has its remote invitation.
ListAvailable == \A k \in Keys : status[k] \in TerminalStatuses => live[k] = 0

Starts(c, t) == call[c] = Idle /\ call' = [call EXCEPT ![c] = t]
Ends(c) == call' = [call EXCEPT ![c] = Idle]
Moves(c, phase) == call' = [call EXCEPT ![c].phase = phase]

\* The answer shows the list: the handler loads it first, and fails without it.
StartCreate(c, k) ==
    /\ ListAvailable
    /\ submitted < MaxSubmissions
    /\ submitted' = submitted + 1
    /\ Starts(c, [phase |-> "reserve", key |-> k, revision |-> 0, own |-> FALSE])
    /\ UNCHANGED <<row, remote, tokens, asked, failures, interrupts>>

\* The handle carries the key and the revision that the list showed.
StartRevoke(c, k) ==
    /\ ListAvailable
    /\ status[k] \in Statuses \ TerminalStatuses
    /\ Starts(c, [phase |-> "begin", key |-> k, revision |-> revision[k],
                  found |-> 0, result |-> "unknown"])
    /\ asked' = asked \cup {k}
    /\ UNCHANGED <<row, remote, tokens, bounds>>

-----------------------------------------------------------------------------
(* Creation. *)

\* A new key is reserved and goes straight to the remote creation; a row that
\* is there is resumed, reported as completed, or in conflict.
ReserveRegistrationInvitation(c) ==
    LET k == call[c].key IN
    /\ call[c].phase = "reserve"
    /\ IF status[k] = "none"
         THEN /\ status' = [status EXCEPT ![k] = "creating"]
              /\ revision' = [revision EXCEPT ![k] = 1]
              /\ call' = [call EXCEPT ![c].phase = "create", ![c].revision = 1]
         ELSE /\ IF status[k] \in Resumable
                   THEN call' = [call EXCEPT ![c].phase = "list", ![c].revision = revision[k]]
                   ELSE Ends(c)
              /\ UNCHANGED row
    /\ UNCHANGED <<remote, tokens, asked, bounds>>

\* Mutation of the resumption: a remote invitation is not looked for first,
\* and an adopted one is treated as the call's own.
AdoptAsOwn(c) ==
    LET k == call[c].key IN
    /\ call[c].phase = "list"
    /\ call' = [call EXCEPT ![c].phase = IF live[k] # 0 THEN "mail" ELSE "create",
                            ![c].own = live[k] # 0]
    /\ UNCHANGED <<row, remote, tokens, asked, bounds>>

\* A resumed row adopts the remote invitation of its name, which is never
\* mailed nor shown.
AdoptInvitation(c) ==
    LET k == call[c].key IN
    /\ call[c].phase = "list"
    /\ Moves(c, IF live[k] # 0 THEN "complete" ELSE "create")
    /\ UNCHANGED <<row, remote, tokens, asked, bounds>>

\* The token is mailed before the outcome is committed, if the form asks so.
CreateInvitation(c) ==
    LET k == call[c].key IN
    /\ call[c].phase = "create"
    /\ IF live[k] # 0
         THEN Moves(c, "record") /\ UNCHANGED <<live, made>>
         ELSE /\ made' = [made EXCEPT ![k] = @ + 1]
              /\ live' = [live EXCEPT ![k] = made[k] + 1]
              /\ \E next \in Deliveries :
                   call' = [call EXCEPT ![c].phase = next, ![c].own = TRUE]
    /\ UNCHANGED <<row, gone, tokens, asked, bounds>>

\* Queued, failed or unknown: the creation goes on.
SendInvitation(c) ==
    /\ call[c].phase = "mail"
    /\ mails' = [mails EXCEPT ![call[c].key] = @ + 1]
    /\ Moves(c, "complete")
    /\ UNCHANGED <<row, remote, links, asked, bounds>>

\* A call that failed at Authentik, with or without having made the invitation.
CreateFailure(c) ==
    LET k == call[c].key IN
    /\ call[c].phase \in {"list", "create"}
    /\ failures < MaxFailures
    /\ failures' = failures + 1
    /\ \/ UNCHANGED <<live, made>>
       \/ /\ call[c].phase = "create" /\ live[k] = 0
          /\ made' = [made EXCEPT ![k] = @ + 1]
          /\ live' = [live EXCEPT ![k] = made[k] + 1]
    /\ Moves(c, "record")
    /\ UNCHANGED <<row, gone, tokens, asked, submitted, interrupts>>

OwnsReservation(t) ==
    /\ status[t.key] \in Resumable
    /\ revision[t.key] = t.revision
    /\ t.revision < MaxRevision

Changes(k, newStatus) ==
    /\ status' = [status EXCEPT ![k] = newStatus]
    /\ revision' = [revision EXCEPT ![k] = @ + 1]

\* Mutation of the failure record: the width of the revision is not checked.
RecordUnbounded(c) ==
    LET t == call[c] IN
    /\ t.phase = "record"
    /\ Ends(c)
    /\ IF status[t.key] \in Resumable THEN Changes(t.key, "unknown") ELSE UNCHANGED row
    /\ UNCHANGED <<remote, tokens, asked, bounds>>

RecordRegistrationInvitationFailure(c) ==
    LET t == call[c] IN
    /\ t.phase = "record"
    /\ Ends(c)
    /\ IF OwnsReservation(t) THEN Changes(t.key, "unknown") ELSE UNCHANGED row
    /\ UNCHANGED <<remote, tokens, asked, bounds>>

\* Mutation of the completion: neither revision nor state is looked at.
CompleteAnyRow(c) ==
    LET t == call[c] IN
    /\ t.phase = "complete"
    /\ Ends(c)
    /\ revision[t.key] < MaxRevision
    /\ Changes(t.key, "active")
    /\ UNCHANGED <<remote, tokens, asked, bounds>>

\* The link is shown by the call that made the invitation, once its
\* completion has committed.
CompleteRegistrationInvitation(c) ==
    LET t == call[c] IN
    /\ t.phase = "complete"
    /\ Ends(c)
    /\ IF OwnsReservation(t)
         THEN /\ Changes(t.key, "active")
              /\ links' = [links EXCEPT ![t.key] = IF t.own THEN @ + 1 ELSE @]
         ELSE UNCHANGED <<row, links>>
    /\ UNCHANGED <<remote, mails, asked, bounds>>

-----------------------------------------------------------------------------
(* Revocation. *)

MayBeginRevocation(t) ==
    /\ status[t.key] \in Resumable \cup {"active"}
    /\ revision[t.key] = t.revision
    /\ t.revision < MaxRevision

\* A revocation that is under way is joined: at the revision of the handle,
\* or at the one that its own first transaction left.
MayResumeRevocation(t) ==
    /\ status[t.key] = "revoke_required"
    /\ revision[t.key] \in {t.revision, t.revision + 1}

\* Mutation of the resumption: a revocation under way is a conflict.
BeginWithoutResuming(c) ==
    LET t == call[c] IN
    /\ t.phase = "begin"
    /\ IF MayBeginRevocation(t)
         THEN /\ Changes(t.key, "revoke_required")
              /\ call' = [call EXCEPT ![c].phase = "find", ![c].revision = t.revision + 1]
         ELSE Ends(c) /\ UNCHANGED row
    /\ UNCHANGED <<remote, tokens, asked, bounds>>

BeginRegistrationInvitationRevocation(c) ==
    LET t == call[c] IN
    /\ t.phase = "begin"
    /\ \/ /\ MayBeginRevocation(t)
          /\ Changes(t.key, "revoke_required")
          /\ call' = [call EXCEPT ![c].phase = "find", ![c].revision = t.revision + 1]
       \/ /\ MayResumeRevocation(t)
          /\ call' = [call EXCEPT ![c].phase = "find", ![c].revision = revision[t.key]]
          /\ UNCHANGED row
       \/ /\ ~MayBeginRevocation(t) /\ ~MayResumeRevocation(t)
          /\ Ends(c) /\ UNCHANGED row
    /\ UNCHANGED <<remote, tokens, asked, bounds>>

Finds(c, result) == call' = [call EXCEPT ![c].phase = "finish", ![c].result = result]

\* Mutation of FindInvitation: what is not there counts as revoked.
FindAsRevoked(c) ==
    LET k == call[c].key IN
    /\ call[c].phase = "find"
    /\ IF live[k] = 0
         THEN Finds(c, "revoked")
         ELSE call' = [call EXCEPT ![c].phase = "delete", ![c].found = live[k]]
    /\ UNCHANGED <<row, remote, tokens, asked, bounds>>

FindInvitation(c) ==
    LET k == call[c].key IN
    /\ call[c].phase = "find"
    /\ IF live[k] = 0
         THEN Finds(c, "absent")
         ELSE call' = [call EXCEPT ![c].phase = "delete", ![c].found = live[k]]
    /\ UNCHANGED <<row, remote, tokens, asked, bounds>>

DeleteInvitation(c) ==
    LET t == call[c] IN
    /\ t.phase = "delete"
    /\ IF live[t.key] = t.found
         THEN /\ live' = [live EXCEPT ![t.key] = 0]
              /\ Moves(c, "readback")
         ELSE Finds(c, "absent") /\ UNCHANGED live
    /\ UNCHANGED <<row, made, gone, tokens, asked, bounds>>

ReadBackInvitation(c) ==
    LET t == call[c] IN
    /\ t.phase = "readback"
    /\ Finds(c, IF live[t.key] = t.found THEN "unknown" ELSE "revoked")
    /\ UNCHANGED <<row, remote, tokens, asked, bounds>>

RevokeFailure(c) ==
    LET t == call[c] IN
    /\ t.phase \in {"find", "delete", "readback"}
    /\ failures < MaxFailures
    /\ failures' = failures + 1
    /\ \/ UNCHANGED live
       \/ /\ t.phase = "delete" /\ live[t.key] = t.found
          /\ live' = [live EXCEPT ![t.key] = 0]
    /\ Finds(c, "unknown")
    /\ UNCHANGED <<row, made, gone, tokens, asked, submitted, interrupts>>

CompleteRegistrationInvitationRevocation(c) ==
    LET t == call[c] IN
    /\ t.phase = "finish"
    /\ Ends(c)
    /\ IF /\ status[t.key] = "revoke_required"
          /\ revision[t.key] = t.revision
          /\ t.revision < MaxRevision
         THEN Changes(t.key, t.result)
         ELSE UNCHANGED row
    /\ UNCHANGED <<remote, tokens, asked, bounds>>

-----------------------------------------------------------------------------
(* The environment. *)

\* The recipient uses the invitation, or it expires.
InvitationEnds(k) ==
    /\ live[k] # 0
    /\ gone' = [gone EXCEPT ![k] = @ \cup {live[k]}]
    /\ live' = [live EXCEPT ![k] = 0]
    /\ UNCHANGED <<row, made, tokens, asked, call, bounds>>

Interrupt(c) ==
    /\ call[c] # Idle
    /\ interrupts < MaxInterrupts
    /\ interrupts' = interrupts + 1
    /\ Ends(c)
    /\ UNCHANGED <<row, remote, tokens, asked, submitted, failures>>

-----------------------------------------------------------------------------
CallStep(c) ==
    \/ ReserveRegistrationInvitation(c)
    \/ AdoptInvitation(c)
    \/ CreateInvitation(c)
    \/ SendInvitation(c)
    \/ RecordRegistrationInvitationFailure(c)
    \/ CompleteRegistrationInvitation(c)
    \/ BeginRegistrationInvitationRevocation(c)
    \/ FindInvitation(c)
    \/ DeleteInvitation(c)
    \/ ReadBackInvitation(c)
    \/ CompleteRegistrationInvitationRevocation(c)

Next ==
    \/ \E c \in Calls : \/ CallStep(c) \/ CreateFailure(c) \/ RevokeFailure(c) \/ Interrupt(c)
                        \/ \E k \in Keys : StartCreate(c, k) \/ StartRevoke(c, k)
    \/ \E k \in Keys : InvitationEnds(k)

Spec == Init /\ [][Next]_vars

\* Handlers keep running, invitations expire, and an administrator who asked
\* for a revocation keeps asking while the list offers a handle.
Fairness ==
    /\ \A c \in Calls : WF_vars(CallStep(c))
    /\ \A k \in Keys : WF_vars(InvitationEnds(k))
    /\ \A k \in Keys : SF_vars(k \in asked /\ \E c \in Calls : StartRevoke(c, k))

FairSpec == Spec /\ Fairness

-----------------------------------------------------------------------------
(* What the invitations guarantee. *)

\* Only what the Board deleted is called revoked: an invitation that was used
\* or that expired before the deletion is never reported as prevented.
RevokedWasDeleted ==
    \A k \in Keys : status[k] = "revoked" =>
        \E g \in 1..made[k] : g \notin gone[k] /\ g # live[k]

\* Whatever is retried, no invitation is mailed twice or shown twice.
TokenLeavesOnce == \A k \in Keys : mails[k] <= made[k] /\ links[k] <= made[k]

\* Both: what an administrator and a recipient are told is what happened.
InvitationsAreExact == RevokedWasDeleted /\ TokenLeavesOnce

\* A late completion never brings a terminal invitation back.
TerminalIsFinal ==
    [][\A k \in Keys : status[k] \in TerminalStatuses =>
          UNCHANGED <<status[k], revision[k]>>]_vars

\* A revocation that an administrator keeps asking for ends, whatever failed
\* or was lost on the way, unless the failures have used up the revisions.
RevocationConverges ==
    \A k \in Keys :
        k \in asked ~> status[k] \in TerminalStatuses \/ revision[k] = MaxRevision

\* architecture.md: an invitation is called absent when it was consumed or
\* removed, and revoked when the Board deleted it.
TerminalIsGone == \A k \in Keys : status[k] \in TerminalStatuses => live[k] = 0

=============================================================================
