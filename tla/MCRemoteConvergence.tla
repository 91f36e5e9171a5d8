------------------------ MODULE MCRemoteConvergence ------------------------
(***************************************************************************)
(* The protocols that bring Authentik and the Board together, with their   *)
(* fairness: registration decisions, invitations and the expiry of         *)
(* suspensions.  They share no state, so that in one behaviour only one of *)
(* them moves: part says which.  The others keep their initial state.      *)
(***************************************************************************)
EXTENDS RegistrationDecision, FiniteSets, TLC

CONSTANTS
    alice, root, ops, c1, c2, i1, i2, i3, k1, k2, a1, u1, r1, e1,
    Keys, Deliveries, MaxSubmissions,
    Users, Moderators, Requests, Reconcilers, ClaimLimit, MaxRequests

\* What the two other modules ask of their constants.
ASSUME PartsAssumption ==
    /\ Deliveries \subseteq {"mail", "complete"} /\ MaxSubmissions \in Nat
    /\ IsFiniteSet(Users) /\ a1 \in Users /\ Moderators \subseteq Users \ {a1}
    /\ Requests \cap Reconcilers = {} /\ ClaimLimit \in Nat \ {0} /\ MaxRequests \in Nat

VARIABLES
    part,
    \* Invitations
    invStatus, invRevision, live, made, gone, mails, links, asked, invCall, submitted,
    invFailures, invInterrupts,
    \* IdentityReconciliation
    suspension, sync, idRevision, due, session, idGroups, task, claims, begun,
    idFailures, idInterrupts

Invite == INSTANCE Invitations
    WITH status <- invStatus, revision <- invRevision, call <- invCall,
         failures <- invFailures, interrupts <- invInterrupts
Identity == INSTANCE IdentityReconciliation
    WITH Administrators <- {a1}, MaxRevision <- 20, MaxFailures <- 1,
         revision <- idRevision, groups <- idGroups,
         failures <- idFailures, interrupts <- idInterrupts

inviteVars ==
    <<invStatus, invRevision, live, made, gone, mails, links, asked, invCall, submitted,
      invFailures, invInterrupts>>
identityVars ==
    <<suspension, sync, idRevision, due, session, idGroups, task, claims, begun,
      idFailures, idInterrupts>>
partVars == <<part, vars, inviteVars, identityVars>>

PartInit ==
    /\ part \in {"decide", "invite", "identity"}
    /\ Init /\ Invite!Init /\ Identity!Init
    /\ part # "identity" => \A u \in Users : suspension[u] = "none" /\ ~session[u]

PartNext ==
    \/ part = "decide" /\ Next /\ UNCHANGED <<part, inviteVars, identityVars>>
    \/ part = "invite" /\ Invite!Next /\ UNCHANGED <<part, vars, identityVars>>
    \/ part = "identity" /\ Identity!Next /\ UNCHANGED <<part, vars, inviteVars>>

\* The fairness of the three modules, each for the part that moves.
PartFairness ==
    /\ \A c \in Calls : WF_vars(part = "decide" /\ CallStep(c))
    /\ \A p \in Applicants : SF_vars(part = "decide" /\ RetryDecision(p))
    /\ \A c \in Calls : WF_inviteVars(part = "invite" /\ Invite!CallStep(c))
    /\ \A k \in Keys : WF_inviteVars(part = "invite" /\ Invite!InvitationEnds(k))
    /\ \A k \in Keys : SF_inviteVars(/\ part = "invite" /\ k \in asked
                                     /\ \E c \in Calls : Invite!StartRevoke(c, k))
    /\ \A r \in Requests : WF_identityVars(part = "identity" /\ Identity!RequestStep(r))
    /\ \A w \in Reconcilers : WF_identityVars(part = "identity" /\ Identity!ReconcilerStep(w))
    /\ \A u \in Users : WF_identityVars(part = "identity" /\ Identity!SuspensionExpires(u))
    /\ \A u \in Users : WF_identityVars(part = "identity" /\ Identity!BackoffElapses(u))

PartSpec == PartInit /\ [][PartNext]_partVars /\ PartFairness

\* Bound: a failure or a crash in the reconciliation only with one request.
FewDisturbances == begun > 1 => idFailures + idInterrupts = 0

-----------------------------------------------------------------------------
(* The properties of the other two modules, and those of all three. *)

PartTypeOK == TypeOK /\ Invite!TypeOK /\ Identity!TypeOK

\* Invitations: only what the Board deleted is called revoked, and none is
\* mailed twice or shown twice.
InvitationsAreExact == Invite!InvitationsAreExact

\* No late completion takes back an outcome: a decision, an invitation's end.
OutcomesStand ==
    /\ DecisionIsNeverOvertaken
    /\ Invite!TerminalIsFinal

\* What was begun between the Board and Authentik ends: a decision that is
\* retried, a revocation that is asked for again, a suspension that expired.
RemoteConverges ==
    /\ IntentConverges
    /\ Invite!RevocationConverges
    /\ Identity!ExpiredSuspensionIsLifted
=============================================================================
