----------------------------- MODULE BoardAccess -----------------------------
(***************************************************************************)
(* What suspension and reinstatement promise about access to the Board.    *)
(* Denial is one local step.  Access comes back only in a step of its own, *)
(* and only after the remote system was seen to accept the identity, with  *)
(* no denial in between.  Somebody who may administer always has access.   *)
(***************************************************************************)
EXTENDS FiniteSets

CONSTANTS Users, Administrators

VARIABLES
    granted,    \* users whose local row grants access
    session,    \* users with a session that is not revoked
    accepted,   \* users the remote system accepts
    confirmed   \* denied users whose acceptance was verified since the denial

vars == <<granted, session, accepted, confirmed>>

Init ==
    /\ granted \in SUBSET Users
    /\ granted \cap Administrators # {}
    /\ session \in SUBSET granted
    /\ accepted \in SUBSET Users
    /\ confirmed = {}

\* A denied user may be denied again: that voids a confirmation.
Deny(u) ==
    /\ granted \cap (Administrators \ {u}) # {}
    /\ granted' = granted \ {u}
    /\ session' = session \ {u}
    /\ confirmed' = confirmed \ {u}
    /\ UNCHANGED accepted

Confirm(u) ==
    /\ u \in accepted \ granted
    /\ confirmed' = confirmed \cup {u}
    /\ UNCHANGED <<granted, session, accepted>>

Withdraw ==
    /\ confirmed' \in SUBSET confirmed
    /\ UNCHANGED <<granted, session, accepted>>

Restore(u) ==
    /\ u \in confirmed
    /\ granted' = granted \cup {u}
    /\ confirmed' = confirmed \ {u}
    /\ UNCHANGED <<session, accepted>>

ChangeSession(u) ==
    /\ \/ u \in granted /\ session' = session \cup {u}
       \/ session' = session \ {u}
    /\ UNCHANGED <<granted, accepted, confirmed>>

RemoteChange ==
    /\ accepted' \in SUBSET Users
    /\ UNCHANGED <<granted, session, confirmed>>

Next ==
    \/ \E u \in Users : Deny(u) \/ Confirm(u) \/ Restore(u) \/ ChangeSession(u)
    \/ Withdraw
    \/ RemoteChange

Spec == Init /\ [][Next]_vars

=============================================================================
