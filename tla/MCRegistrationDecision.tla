---------------------- MODULE MCRegistrationDecision ----------------------
(* Instances of RegistrationDecision for TLC. *)
EXTENDS RegistrationDecision, TLC

CONSTANTS alice, root, ops, c1, c2, i1, i2, i3

Symmetry == Permutations({c1, c2}) \cup Permutations({i1, i2, i3}) \cup Permutations({root, ops})
=============================================================================
