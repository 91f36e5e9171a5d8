--------------------------- MODULE MCInvitations ---------------------------
(* Instances of Invitations for TLC. *)
EXTENDS Invitations, TLC

CONSTANTS k1, k2, c1, c2, c3

Symmetry == Permutations({c1, c2, c3}) \cup Permutations({k1, k2})
CallSymmetry == Permutations({c1, c2, c3})
=============================================================================
