---------------------------- MODULE MCSessions ----------------------------
(* Sessions on small instances for TLC. *)
EXTENDS Sessions, FiniteSets, TLC

TaskSymmetry == Permutations(Tasks)

\* Bound: one revocation at a time (two of them only wait for the user's row)
\* and one attempt that has not come back yet (a callback consumes it before
\* its exchange, so that callbacks still overlap), the last one before the time
\* at which a session reaches its age and before the account changes for the
\* first time.  The second change is one of role, a suspension or its end.
FewCalls ==
    /\ Cardinality({t \in Tasks : task[t].kind \in Revocations}) <= 1
    /\ Cardinality({a \in DOMAIN attempts : attempts[a].open}) <= 1
    /\ now > 2 \/ revision > 1 => Len(attempts) < MaxAttempts
    /\ revision > 2 => since = revision
=============================================================================
