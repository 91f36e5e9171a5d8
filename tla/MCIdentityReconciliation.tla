---------------------- MODULE MCIdentityReconciliation ----------------------
(* Small instances of IdentityReconciliation for TLC. *)
EXTENDS IdentityReconciliation, TLC

CONSTANTS a1, a2, m1, u1, r1, r2, e1, e2

MCSymmetry ==
    Permutations(Requests) \cup Permutations(Reconcilers) \cup Permutations(Administrators)

\* Bounds: three tasks at a time, and a failure or a crash only with one request.
FewTasks ==
    /\ Cardinality({w \in Workers : task[w] # Idle}) <= 3
    /\ begun > 1 => failures + interrupts = 0
=============================================================================
